---- MODULE Spec2Model ----
(***************************************************************************)
(* The script-validation pipeline of biomni/tool/lab_automation.py:        *)
(* test_pylabrobot_script and the functions it calls                       *)
(* (_validate_pylabrobot_imports, _modify_script_for_testing,              *)
(* _execute_script_safely, _run_script_with_monitoring,                    *)
(* _create_test_result).  One invocation is a calling thread (pc, execPc), *)
(* the worker thread started by the runner (workerPc) and the nested       *)
(* thread the worker may start for an asynchronous main (nestedPc).        *)
(*                                                                         *)
(* Python values: an optional value (None or x) is <<>> or <<x>>; a        *)
(* message built by an f-string is the sequence of its parts.              *)
(***************************************************************************)
EXTENDS Integers, Sequences, FiniteSets, TLC

\* ---------------------------------------------------------------- bounds
MaxTimeout == 2     \* timeout_seconds ranges over 1..MaxTimeout
MaxImports == 2     \* a script holds at most this many pylabrobot references

\* ------------------------------------------------------------ exceptions
\* isinstance(exc, cls) for the exception classes the pipeline meets.
\* SystemExit derives from BaseException only.
IsInstance(exc, cls) ==
    \/ cls = "BaseException"
    \/ cls = "Exception" /\ exc # "SystemExit"
    \/ cls = exc

\* ----------------------------------------------------------------- inputs
InputKinds == {"not_a_string", "file", "unreadable_file", "string"}
Contents == {"", "whitespace", "code"}
ParseOutcomes == {"ok", "SyntaxError", "RecursionError"}
\* How the lookup of one reference ends, as the pipeline sees it: nothing
\* recorded, an error entry, a warning entry.  The second kind of error
\* entry (a name missing from its module) is drawn in ImportSpec.
Resolutions == {"ok", "ImportError", "exception"}
BodyOutcomes == {"ok", "raise", "exit", "hang"}
MainKinds == {"none", "sync", "async"}
MainOutcomes == {"ok", "raise", "raiseRuntimeError", "hang"}

\* What running the submitted script does: its module body, the kind of its
\* main, whether the body already calls main under its __name__ guard, and
\* what a call of main does.  A body that does not run to its end defines
\* nothing the runner looks at.
Scripts ==
    { s \in [body : BodyOutcomes, main : MainKinds, guard : BOOLEAN,
             mainOutcome : MainOutcomes] :
        /\ (s.main = "none") => (s.mainOutcome = "ok" /\ ~s.guard)
        /\ (s.body # "ok") => (s.main = "none") }

Args == [timeout_seconds : 1..MaxTimeout, enable_tracking : BOOLEAN,
         save_test_report : BOOLEAN]

SeqsUpTo(S, n) == UNION { [1..k -> S] : k \in 0..n }

\* str.strip() of the resolved content
Strip(c) == IF c = "whitespace" THEN "" ELSE c

VARIABLES
    args,               \* the arguments of this invocation
    script,             \* the behaviour of the submitted script
    pc,                 \* position of the calling thread in test_pylabrobot_script
    input_kind,         \* what script_input turned out to be ("none" before)
    script_content,     \* the resolved source
    parsed,             \* outcome of ast.parse at the syntax stage ("none" before)
    test_results,       \* the per-stage flags
    execution_summary,
    errors, warnings,   \* the shared lists
    import_results,     \* <<>> or <<what _validate_pylabrobot_imports returned>>
    overall,            \* the success argument handed to _create_test_result
    stages,             \* the stages started so far, in order
    result,             \* <<>> or <<the returned result>>
    report,             \* <<>> or <<the content of the persisted report file>>
    escaped,            \* <<>> or <<the exception that left test_pylabrobot_script>>
    \* _execute_script_safely, calling thread
    execPc, r_errors, r_ret, tempFile, tempBound, clock, aliveAtCheck,
    execution_result,   \* <<>> or <<what _execute_script_safely returned>>
    r_raised,           \* <<>> or <<the exception that left _execute_script_safely>>
    \* worker thread (target) and nested thread (run_async)
    workerPc, w_result, w_exception, fileSeen, mainCalls,
    loop_running,       \* <<>> or <<whether get_running_loop found a loop>>
    invoked,            \* how the runner invoked main, in order
    nestedPc, n_exception,
    \* _modify_script_for_testing on its own
    t_pc,               \* position in _modify_script_for_testing
    t_source,           \* its script_content argument
    modified_script,    \* its local of that name
    insert_at,          \* <<>> or <<the index the import line went to>>
    insert_index,       \* <<>> or <<the index the tracking snippet went to>>
    \* _validate_pylabrobot_imports on its own
    i_pc,               \* position in _validate_pylabrobot_imports
    pylabrobot_imports, \* the collected references
    i_k,                \* how many of them the loop of line 400 has handled
    import_errors, import_warnings,
    i_result,           \* <<>> or <<what the function returned>>
    \* the wetlab results store
    wl_rows,            \* the rows of table wetlab_results
    wl_next_id,         \* the next result_id the table hands out
    wl_upserted,        \* the key and value of every executed upsert, in order
    wl_message,         \* <<>> or <<what the last call returned>>
    \* upsert_wetlab_results, record by record
    u_pc,               \* "idle", or "loop" inside the loop of line 806
    u_records,          \* the records of the call in progress
    u_idx,              \* how many of them the loop has handled
    u_st,               \* <<>> or <<the loop's state>> (see UpsertOne)
    \* the documentation loader
    d_pc,               \* position in get_pylabrobot_documentation_*
    d_section,          \* "liquid" or "material"
    d_archive,          \* the documents of the section in the archive
    gh_docs,            \* what _collect_docs_from_github_zip returned
    d_text,             \* <<>> or <<the length of the loaded text>>
    d_returned,         \* <<>> or <<the length of the returned text>>
    \* reports of several invocations
    rp_now,             \* the wall clock, in seconds
    rp_files,           \* the report files on disk: path |-> content
    rp_returned         \* the results of the invocations that have returned

pipeVars == <<args, script, pc, input_kind, script_content, parsed, test_results,
              execution_summary, errors, warnings, import_results, overall,
              stages, result, report, escaped>>
execVars == <<execPc, r_errors, r_ret, tempFile, tempBound, clock,
              aliveAtCheck, execution_result, r_raised>>
workerVars == <<workerPc, w_result, w_exception, fileSeen, mainCalls,
                loop_running, invoked, nestedPc, n_exception>>
transformVars == <<t_pc, t_source, modified_script, insert_at, insert_index>>
importVars == <<i_pc, pylabrobot_imports, i_k, import_errors, import_warnings,
                i_result>>
upsertLoopVars == <<u_pc, u_records, u_idx, u_st>>
wetlabVars == <<wl_rows, wl_next_id, wl_upserted, wl_message, upsertLoopVars>>
docVars == <<d_pc, d_section, d_archive, gh_docs, d_text, d_returned>>
reportVars == <<rp_now, rp_files, rp_returned>>
toolVars == <<transformVars, importVars, wetlabVars, docVars, reportVars>>
vars == <<pipeVars, execVars, workerVars, toolVars>>

\* The functions checked on their own are not in progress.
TransformIdle ==
    /\ t_pc = "idle"
    /\ t_source = <<>>
    /\ modified_script = <<>>
    /\ insert_at = <<>>
    /\ insert_index = <<>>

ImportIdle ==
    /\ i_pc = "idle"
    /\ pylabrobot_imports = <<>>
    /\ i_k = 0
    /\ import_errors = <<>>
    /\ import_warnings = <<>>
    /\ i_result = <<>>

WetlabIdle ==
    /\ wl_rows = {}
    /\ wl_next_id = 1
    /\ wl_upserted = <<>>
    /\ wl_message = <<>>
    /\ u_pc = "idle"
    /\ u_records = <<>>
    /\ u_idx = 0
    /\ u_st = <<>>

DocsIdle ==
    /\ d_pc = "idle"
    /\ d_section = "none"
    /\ d_archive = <<>>
    /\ gh_docs = <<>>
    /\ d_text = <<>>
    /\ d_returned = <<>>

\* No invocation has saved a report.
ReportIdle ==
    /\ rp_now = 0
    /\ rp_files = <<>>
    /\ rp_returned = <<>>

ToolsIdle == TransformIdle /\ ImportIdle /\ WetlabIdle /\ DocsIdle /\ ReportIdle

ZeroSummary == [operations_performed |-> 0, tips_used |-> 0,
                liquid_transferred |-> 0, total_execution_time |-> FALSE]

\* The locals of test_pylabrobot_script at line 275, with the runner and the
\* worker not started.
PipelineStart ==
    /\ pc = "resolve"
    /\ input_kind = "none"
    /\ script_content = ""
    /\ parsed = "none"
    /\ test_results = [syntax_valid |-> FALSE, imports_valid |-> FALSE,
                       simulation_successful |-> FALSE,
                       tracking_enabled |-> args.enable_tracking,
                       input_type |-> "unset"]
    /\ execution_summary = ZeroSummary
    /\ errors = <<>>
    /\ warnings = <<>>
    /\ import_results = <<>>
    /\ overall = FALSE
    /\ stages = <<>>
    /\ result = <<>>
    /\ report = <<>>
    /\ escaped = <<>>
    /\ execPc = "idle"
    /\ r_errors = <<>>
    /\ r_ret = <<>>
    /\ tempFile = "absent"
    /\ tempBound = FALSE
    /\ clock = 0
    /\ aliveAtCheck = FALSE
    /\ execution_result = <<>>
    /\ r_raised = <<>>
    /\ workerPc = "idle"
    /\ w_result = <<>>
    /\ w_exception = <<>>
    /\ fileSeen = FALSE
    /\ mainCalls = 0
    /\ loop_running = <<>>
    /\ invoked = <<>>
    /\ nestedPc = "idle"
    /\ n_exception = <<>>

\* The pipeline is not running: the state in which one of the other
\* functions of the module is called on its own.
NoScript == [body |-> "ok", main |-> "none", guard |-> FALSE, mainOutcome |-> "ok"]

PipelineIdle ==
    /\ args = [timeout_seconds |-> 1, enable_tracking |-> FALSE,
               save_test_report |-> FALSE]
    /\ script = NoScript
    /\ PipelineStart

Init ==
    /\ args \in Args
    /\ script \in Scripts
    /\ PipelineStart
    /\ ToolsIdle

\* ------------------------------------------- test_pylabrobot_script, input
\* The handler class of the try around input resolution (line 315).
InputHandlerClass == "Exception"

\* Where the calling thread goes after input resolution.
ResolveNextPc(kind) ==
    IF kind \in {"file", "string"} THEN "emptycheck" ELSE "synth"

\* Lines 287-319: decide whether script_input is a path or source text.
ResolveInput ==
    /\ pc = "resolve"
    /\ \E kind \in InputKinds, content \in Contents :
         /\ input_kind' = kind
         /\ CASE kind = "not_a_string" ->
                \* script_input.endswith raises AttributeError
                IF IsInstance("AttributeError", InputHandlerClass)
                THEN /\ errors' = Append(errors, <<"Failed to process script input", "AttributeError">>)
                     /\ pc' = ResolveNextPc(kind)
                     /\ UNCHANGED <<script_content, test_results, escaped>>
                ELSE /\ pc' = "raised"
                     /\ escaped' = <<"AttributeError">>
                     /\ UNCHANGED <<script_content, test_results, errors>>
           [] kind = "unreadable_file" ->
                \* open or read raises inside the inner try (line 298)
                /\ errors' = Append(errors, <<"Failed to read script file", "OSError">>)
                /\ pc' = ResolveNextPc(kind)
                /\ UNCHANGED <<script_content, test_results, escaped>>
           [] kind = "file" ->
                /\ script_content' = content
                /\ test_results' = [test_results EXCEPT !.input_type = "file"]
                /\ pc' = ResolveNextPc(kind)
                /\ UNCHANGED <<errors, escaped>>
           [] kind = "string" ->
                /\ script_content' = content
                /\ test_results' = [test_results EXCEPT !.input_type = "string"]
                /\ pc' = ResolveNextPc(kind)
                /\ UNCHANGED <<errors, escaped>>
    /\ overall' = FALSE
    /\ UNCHANGED <<args, script, parsed, execution_summary, warnings,
                   import_results, stages, result, report>>
    /\ UNCHANGED <<execVars, workerVars>>
    /\ UNCHANGED toolVars

IsEmpty_NoStrip(content) == content = ""

\* Line 321: not script_content.strip()
IsEmpty(content) == Strip(content) = ""

\* Where the calling thread goes after the emptiness test.
EmptyNextPc(content) == IF IsEmpty(content) THEN "synth" ELSE "syntax"

\* Lines 321-325: reject an empty submission.
EmptyCheck ==
    /\ pc = "emptycheck"
    /\ pc' = EmptyNextPc(script_content)
    /\ errors' = IF IsEmpty(script_content)
                 THEN Append(errors, <<"Script content is empty">>)
                 ELSE errors
    /\ overall' = FALSE
    /\ UNCHANGED <<args, script, input_kind, script_content, parsed, test_results,
                   execution_summary, warnings, import_results, stages,
                   result, report, escaped>>
    /\ UNCHANGED <<execVars, workerVars>>
    /\ UNCHANGED toolVars

\* ------------------------------------------- test_pylabrobot_script, stages
OuterHandlerClass_SyntaxErrorOnly == "SyntaxError"

\* The handler class of the try around the stages (line 359).
OuterHandlerClass == "Exception"

OuterExcept_ClearsErrors(exc) ==
    /\ errors' = << <<"Unexpected error during testing", exc>> >>
    /\ pc' = "overall"
    /\ escaped' = escaped

\* Lines 359-361: an exception raised inside the stages is recorded, or it
\* leaves the function when the handler does not match.
OuterExcept(exc) ==
    IF IsInstance(exc, OuterHandlerClass)
    THEN /\ errors' = Append(errors, <<"Unexpected error during testing", exc>>)
         /\ pc' = "overall"
         /\ escaped' = escaped
    ELSE /\ errors' = errors
         /\ pc' = "raised"
         /\ escaped' = <<exc>>

SyntaxNextPc_NoAbort(outcome) == "imports"

\* Where the calling thread goes after a SyntaxError / a successful parse.
SyntaxNextPc(outcome) == IF outcome = "ok" THEN "imports" ELSE "synth"

\* Lines 329-336: Step 1, ast.parse.
SyntaxCheck ==
    /\ pc = "syntax"
    /\ stages' = Append(stages, "syntax")
    /\ \E outcome \in ParseOutcomes :
         /\ parsed' = outcome
         /\ CASE outcome = "ok" ->
                   /\ test_results' = [test_results EXCEPT !.syntax_valid = TRUE]
                   /\ pc' = SyntaxNextPc(outcome)
                   /\ UNCHANGED <<errors, escaped>>
              [] outcome = "SyntaxError" ->
                   /\ errors' = Append(errors, <<"Syntax Error", "msg", "at line", "lineno">>)
                   /\ pc' = SyntaxNextPc(outcome)
                   /\ UNCHANGED <<test_results, escaped>>
              [] OTHER ->
                   \* ast.parse fails with something that is no SyntaxError
                   /\ OuterExcept(outcome)
                   /\ UNCHANGED test_results
    /\ overall' = FALSE
    /\ UNCHANGED <<args, script, input_kind, script_content, execution_summary, warnings,
                   import_results, result, report>>
    /\ UNCHANGED <<execVars, workerVars>>
    /\ UNCHANGED toolVars

\* Lines 379-428: _validate_pylabrobot_imports on the collected references,
\* each given by how its resolution ends.  The parse at line 386 repeats the
\* one of the syntax stage on the same text and succeeds.
ImportErrors(refs) ==
    LET F[k \in 0..Len(refs)] ==
          IF k = 0 THEN <<>>
          ELSE IF refs[k] = "ImportError"
               THEN Append(F[k-1], <<"Failed to import", refs[k]>>)
          ELSE IF refs[k] = "missing"
               THEN Append(F[k-1], <<"Cannot find", refs[k]>>)
          ELSE F[k-1]
    IN F[Len(refs)]

ImportWarnings(refs) ==
    LET F[k \in 0..Len(refs)] ==
          IF k = 0 THEN <<>>
          ELSE IF refs[k] = "exception"
               THEN Append(F[k-1], <<"Warning validating import", refs[k]>>)
          ELSE F[k-1]
    IN F[Len(refs)]

ValidateImports(refs) ==
    [success |-> Len(ImportErrors(refs)) = 0,
     errors |-> ImportErrors(refs),
     warnings |-> ImportWarnings(refs)]

ImportsNextPc_SkipTransform(ir) == "run"

ImportsNextPc_AbortOnError(ir) == IF ir.success THEN "transform" ELSE "overall"

\* Where the calling thread goes after the import stage.
ImportsNextPc(ir) == "transform"

\* Lines 339-343: Step 2.
ImportValidation ==
    /\ pc = "imports"
    /\ stages' = Append(stages, "imports")
    /\ \E refs \in SeqsUpTo(Resolutions, MaxImports) :
         LET ir == ValidateImports(refs) IN
         /\ import_results' = <<ir>>
         /\ test_results' = [test_results EXCEPT !.imports_valid = ir.success]
         /\ errors' = IF ~ir.success THEN errors \o ir.errors ELSE errors
         /\ warnings' = IF ~ir.success THEN warnings \o ir.warnings ELSE warnings
         /\ pc' = ImportsNextPc(ir)
    /\ UNCHANGED <<args, script, input_kind, script_content, parsed, execution_summary,
                   overall, result, report, escaped>>
    /\ UNCHANGED <<execVars, workerVars>>
    /\ UNCHANGED toolVars

\* Where the calling thread goes after the transformer.
TransformNextPc == "run"

\* Line 346: Step 3, _modify_script_for_testing.
Transform ==
    /\ pc = "transform"
    /\ stages' = Append(stages, "transform")
    /\ pc' = TransformNextPc
    /\ UNCHANGED <<args, script, input_kind, script_content, parsed, test_results,
                   execution_summary, errors, warnings, import_results,
                   overall, result, report, escaped>>
    /\ UNCHANGED <<execVars, workerVars>>
    /\ UNCHANGED toolVars

\* Line 349: Step 4, the call of _execute_script_safely.
RunnerCall ==
    /\ pc = "run"
    /\ stages' = Append(stages, "run")
    /\ pc' = "running"
    /\ execPc' = "create"
    /\ UNCHANGED <<args, script, input_kind, script_content, parsed, test_results,
                   execution_summary, errors, warnings, import_results,
                   overall, result, report, escaped>>
    /\ UNCHANGED <<r_errors, r_ret, tempFile, tempBound, clock, aliveAtCheck,
                   execution_result, r_raised>>
    /\ UNCHANGED workerVars
    /\ UNCHANGED toolVars

MergeErrors_Overwrite(errs, er) == IF ~er.success THEN er.errors ELSE errs

\* Lines 354-355: errors.extend(execution_result["errors"]) on failure.
MergeErrors(errs, er) == IF ~er.success THEN errs \o er.errors ELSE errs

\* Lines 351-357: the runner returned.
RunnerReturned ==
    /\ pc = "running"
    /\ execPc = "returned"
    /\ LET er == execution_result[1] IN
         /\ test_results' = [test_results EXCEPT !.simulation_successful = er.success]
         /\ execution_summary' =
              [execution_summary EXCEPT
                 !.operations_performed = er.summary.operations_performed,
                 !.tips_used = er.summary.tips_used,
                 !.liquid_transferred = er.summary.liquid_transferred]
         /\ errors' = MergeErrors(errors, er)
         /\ warnings' = warnings \o er.warnings
    /\ pc' = "overall"
    /\ UNCHANGED <<args, script, input_kind, script_content, parsed, import_results,
                   overall, stages, result, report, escaped>>
    /\ UNCHANGED <<execVars, workerVars>>
    /\ UNCHANGED toolVars

\* Line 349 raising: the runner let an exception out, the handler of line 359
\* takes it.
RunnerRaised ==
    /\ pc = "running"
    /\ execPc = "raised"
    /\ OuterExcept(r_raised[1])
    /\ UNCHANGED <<args, script, input_kind, script_content, parsed, test_results,
                   execution_summary, warnings, import_results, overall,
                   stages, result, report>>
    /\ UNCHANGED <<execVars, workerVars>>
    /\ UNCHANGED toolVars

OverallSuccess_NoImports(tr) ==
    tr.syntax_valid /\ tr.simulation_successful

\* Lines 363-365.
OverallSuccess(tr) ==
    tr.syntax_valid /\ tr.imports_valid /\ tr.simulation_successful

Overall ==
    /\ pc = "overall"
    /\ overall' = OverallSuccess(test_results)
    /\ pc' = "synth"
    /\ UNCHANGED <<args, script, input_kind, script_content, parsed, test_results,
                   execution_summary, errors, warnings, import_results,
                   stages, result, report, escaped>>
    /\ UNCHANGED <<execVars, workerVars>>
    /\ UNCHANGED toolVars

\* ------------------------------------------------------ _create_test_result
PersistOutcomes == {"ok", "fail"}

\* The handler class of the try around report persistence (line 653).
PersistHandlerClass == "Exception"

\* Lines 628-634: the result dictionary, before persistence.
ResultDict(success, tr, es, errs, warns) ==
    [success |-> success, test_results |-> tr,
     execution_summary |-> [es EXCEPT !.total_execution_time = TRUE],
     errors |-> errs, warnings |-> warns, test_report_path |-> <<>>]

\* json.dump of a number and json.load of it.
JsonNumber(n) == ToString(n)
JsonParseNumber(t) == CHOOSE n \in 0..9 : ToString(n) = t

\* json.dump of a bool and json.load of it.
JsonBool(b) == IF b THEN "true" ELSE "false"
JsonParseBool(t) == t = "true"

\* The keys of a result dictionary: test_report_path is a key only once line
\* 651 has set it.
DictKeys(r) ==
    {"success", "test_results", "execution_summary", "errors", "warnings"}
    \cup (IF r.test_report_path = <<>> THEN {} ELSE {"test_report_path"})

JsonMember(r, k) ==
    CASE k = "success" -> JsonBool(r.success)
      [] k = "test_results" ->
           [syntax_valid |-> JsonBool(r.test_results.syntax_valid),
            imports_valid |-> JsonBool(r.test_results.imports_valid),
            simulation_successful |-> JsonBool(r.test_results.simulation_successful),
            tracking_enabled |-> JsonBool(r.test_results.tracking_enabled),
            input_type |-> r.test_results.input_type]
      [] k = "execution_summary" ->
           [operations_performed |-> JsonNumber(r.execution_summary.operations_performed),
            tips_used |-> JsonNumber(r.execution_summary.tips_used),
            liquid_transferred |-> JsonNumber(r.execution_summary.liquid_transferred),
            total_execution_time |-> JsonBool(r.execution_summary.total_execution_time)]
      [] k = "test_report_path" -> r.test_report_path[1]
      [] OTHER -> r[k]

JsonDump_WithoutErrors(r) ==
    [k \in DictKeys(r) |-> IF k = "errors" THEN <<>> ELSE JsonMember(r, k)]

\* Lines 648-649: json.dump(result, f), the JSON object written to the file.
JsonDump(r) == [k \in DictKeys(r) |-> JsonMember(r, k)]

\* json.load of the content of a report file, as a result dictionary.
JsonLoad(j) ==
    [success |-> JsonParseBool(j["success"]),
     test_results |->
       [syntax_valid |-> JsonParseBool(j["test_results"].syntax_valid),
        imports_valid |-> JsonParseBool(j["test_results"].imports_valid),
        simulation_successful |-> JsonParseBool(j["test_results"].simulation_successful),
        tracking_enabled |-> JsonParseBool(j["test_results"].tracking_enabled),
        input_type |-> j["test_results"].input_type],
     execution_summary |->
       [operations_performed |-> JsonParseNumber(j["execution_summary"].operations_performed),
        tips_used |-> JsonParseNumber(j["execution_summary"].tips_used),
        liquid_transferred |-> JsonParseNumber(j["execution_summary"].liquid_transferred),
        total_execution_time |-> JsonParseBool(j["execution_summary"].total_execution_time)],
     errors |-> j["errors"],
     warnings |-> j["warnings"],
     test_report_path |-> IF "test_report_path" \in DOMAIN j
                          THEN <<j["test_report_path"]>> ELSE <<>>]

CreateTestResult_FailOnPersistError(success, tr, es, errs, warns, save, persist) ==
    LET r == ResultDict(success, tr, es, errs, warns) IN
    IF ~save THEN r
    ELSE IF persist = "ok"
         THEN [r EXCEPT !.test_report_path = <<"report_path">>]
         ELSE [r EXCEPT !.success = FALSE,
                        !.warnings = Append(warns, <<"Failed to save test report", "OSError">>)]

\* Lines 613-656: the result handed back.  result["warnings"] is the shared
\* list, so a warning appended at line 654 is in the returned result.
CreateTestResult(success, tr, es, errs, warns, save, persist) ==
    LET r == ResultDict(success, tr, es, errs, warns) IN
    IF ~save THEN r
    ELSE IF persist = "ok"
         THEN [r EXCEPT !.test_report_path = <<"report_path">>]
         ELSE [r EXCEPT !.warnings = Append(warns, <<"Failed to save test report", "OSError">>)]

\* The call of _create_test_result on each return path (lines 300, 317, 323,
\* 334, 367).  A failure of makedirs, open or json.dump is taken by the
\* handler of line 653.
Synth ==
    /\ pc = "synth"
    /\ stages' = Append(stages, "synth")
    /\ \E persist \in PersistOutcomes :
         IF args.save_test_report /\ persist = "fail"
            /\ ~IsInstance("OSError", PersistHandlerClass)
         THEN /\ pc' = "raised"
              /\ escaped' = <<"OSError">>
              /\ UNCHANGED <<result, warnings, execution_summary, report>>
         ELSE LET r == CreateTestResult(overall, test_results, execution_summary,
                                        errors, warnings, args.save_test_report,
                                        persist) IN
              /\ result' = <<r>>
              /\ warnings' = r.warnings
              /\ execution_summary' = r.execution_summary
              /\ report' = IF args.save_test_report /\ persist = "ok"
                           THEN <<JsonDump(ResultDict(overall, test_results,
                                                      execution_summary, errors,
                                                      warnings))>>
                           ELSE report
              /\ pc' = "done"
              /\ UNCHANGED escaped
    /\ UNCHANGED <<args, script, input_kind, script_content, parsed, test_results, errors,
                   import_results, overall>>
    /\ UNCHANGED <<execVars, workerVars>>
    /\ UNCHANGED toolVars

\* --------------------------------- _execute_script_safely, calling thread
RunnerSummary == [operations_performed |-> 0, tips_used |-> 0,
                  liquid_transferred |-> 0]

\* threading.Thread.is_alive() of the worker
WorkerAlive == workerPc \notin {"idle", "dead"}

execFrame == <<args, script, pc, input_kind, script_content, parsed, test_results,
               execution_summary, errors, warnings, import_results, overall,
               stages, result, report, escaped, execution_result, r_raised>>

\* Line 503: tempfile.NamedTemporaryFile(delete=False) creates the file, or
\* fails.
ExecCreate ==
    /\ execPc = "create"
    /\ \E ok \in BOOLEAN :
         IF ok THEN /\ tempFile' = "exists"
                    /\ execPc' = "write"
               ELSE /\ tempFile' = tempFile
                    /\ execPc' = "prep_except"
    /\ UNCHANGED <<r_errors, r_ret, tempBound, clock, aliveAtCheck>>
    /\ UNCHANGED <<execFrame, workerVars>>
    /\ UNCHANGED toolVars

\* Lines 504-505: f.write, then temp_script_path = f.name.  A failing write
\* (encoding, full disk) leaves the with block before the assignment.
ExecWrite ==
    /\ execPc = "write"
    /\ \E ok \in BOOLEAN :
         IF ok THEN /\ tempBound' = TRUE
                    /\ execPc' = "start"
               ELSE /\ tempBound' = tempBound
                    /\ execPc' = "prep_except"
    /\ UNCHANGED <<r_errors, r_ret, tempFile, clock, aliveAtCheck>>
    /\ UNCHANGED <<execFrame, workerVars>>
    /\ UNCHANGED toolVars

\* Lines 540-541: the handler of the outer try.
ExecPrepExcept ==
    /\ execPc = "prep_except"
    /\ r_errors' = Append(r_errors, <<"Failed to prepare script execution", "OSError">>)
    /\ execPc' = "finally"
    /\ UNCHANGED <<r_ret, tempFile, tempBound, clock, aliveAtCheck>>
    /\ UNCHANGED <<execFrame, workerVars>>
    /\ UNCHANGED toolVars

\* Lines 522-523: thread.start(); a thread that cannot be started raises
\* RuntimeError, taken by the handler of line 537.
ExecStart ==
    /\ execPc = "start"
    /\ \E ok \in BOOLEAN :
         IF ok THEN /\ workerPc' = "open"
                    /\ execPc' = "join"
                    /\ UNCHANGED r_errors
               ELSE /\ workerPc' = workerPc
                    /\ r_errors' = Append(r_errors, <<"Script execution failed", "can't start new thread">>)
                    /\ execPc' = "finally"
    /\ UNCHANGED <<r_ret, tempFile, tempBound, clock, aliveAtCheck>>
    /\ UNCHANGED <<w_result, w_exception, fileSeen, mainCalls, loop_running,
                   invoked, nestedPc, n_exception>>
    /\ UNCHANGED execFrame
    /\ UNCHANGED toolVars

\* One second of the bounded join passes.
Tick ==
    /\ execPc = "join"
    /\ clock < args.timeout_seconds
    /\ clock' = clock + 1
    /\ UNCHANGED <<execPc, r_errors, r_ret, tempFile, tempBound, aliveAtCheck>>
    /\ UNCHANGED <<execFrame, workerVars>>
    /\ UNCHANGED toolVars

JoinReturns_NoTimeout(alive, elapsed, timeout) == ~alive

\* Line 524: thread.join(timeout=timeout_seconds) returns when the worker has
\* ended or the timeout has elapsed.
JoinReturns(alive, elapsed, timeout) == ~alive \/ elapsed >= timeout

ExecJoin ==
    /\ execPc = "join"
    /\ JoinReturns(WorkerAlive, clock, args.timeout_seconds)
    /\ execPc' = "check"
    /\ UNCHANGED <<r_errors, r_ret, tempFile, tempBound, clock, aliveAtCheck>>
    /\ UNCHANGED <<execFrame, workerVars>>
    /\ UNCHANGED toolVars

CheckBranch_NoAliveTest(alive, exc, res) ==
    IF exc # <<>> THEN "exception"
    ELSE IF res # <<>> THEN "result"
    ELSE "noresult"

CheckBranch_NoResultTest(alive, exc, res) ==
    IF alive THEN "timeout"
    ELSE IF exc # <<>> THEN "exception"
    ELSE "result"

\* Lines 526-536: the branch taken after the join.
CheckBranch(alive, exc, res) ==
    IF alive THEN "timeout"
    ELSE IF exc # <<>> THEN "exception"
    ELSE IF res # <<>> THEN "result"
    ELSE "noresult"

\* Lines 526-538.
ExecCheck ==
    /\ execPc = "check"
    /\ aliveAtCheck' = WorkerAlive
    /\ LET branch == CheckBranch(WorkerAlive, w_exception, w_result) IN
       CASE branch = "timeout" ->
              /\ r_errors' = Append(r_errors,
                     <<"Script execution", "timed out", "after",
                       ToString(args.timeout_seconds), "seconds">>)
              /\ UNCHANGED r_ret
         [] branch = "exception" ->
              \* raise exception, taken by the handler of line 537
              /\ r_errors' = Append(r_errors,
                     <<"Script execution failed">> \o
                     (IF w_exception # <<>> THEN w_exception[1] ELSE <<>>))
              /\ UNCHANGED r_ret
         [] branch = "result" ->
              /\ r_ret' = <<[success |-> TRUE,
                            summary |-> IF w_result # <<>>
                                        THEN w_result[1].summary
                                        ELSE RunnerSummary,
                            errors |-> r_errors,
                            warnings |-> IF w_result # <<>>
                                         THEN w_result[1].warnings
                                         ELSE <<>>]>>
              /\ UNCHANGED r_errors
         [] OTHER ->
              /\ r_errors' = Append(r_errors,
                     <<"Script execution completed but returned no result">>)
              /\ UNCHANGED r_ret
    /\ execPc' = "finally"
    /\ UNCHANGED <<tempFile, tempBound, clock>>
    /\ UNCHANGED <<execFrame, workerVars>>
    /\ UNCHANGED toolVars

\* The handler class of the try around os.unlink (line 546).
FinallyHandlerClass == "OSError"

\* Lines 542-549: the finally block, then the pending return.  os.unlink
\* removes the file this call created and whose name it holds.  With
\* temp_script_path unbound, os.unlink(temp_script_path) raises
\* UnboundLocalError.
ExecFinally ==
    /\ execPc = "finally"
    /\ IF tempBound
       THEN /\ tempFile' = "deleted"
            /\ execution_result' =
                 IF r_ret # <<>> THEN r_ret
                 ELSE <<[success |-> FALSE, summary |-> RunnerSummary,
                         errors |-> r_errors, warnings |-> <<>>]>>
            /\ execPc' = "returned"
            /\ UNCHANGED r_raised
       ELSE IF IsInstance("UnboundLocalError", FinallyHandlerClass)
            THEN /\ execution_result' =
                      <<[success |-> FALSE, summary |-> RunnerSummary,
                         errors |-> r_errors, warnings |-> <<>>]>>
                 /\ execPc' = "returned"
                 /\ UNCHANGED <<tempFile, r_raised>>
            ELSE /\ r_raised' = <<"UnboundLocalError">>
                 /\ execPc' = "raised"
                 /\ UNCHANGED <<tempFile, execution_result>>
    /\ UNCHANGED <<r_errors, r_ret, tempBound, clock, aliveAtCheck>>
    /\ UNCHANGED pipeVars
    /\ UNCHANGED workerVars
    /\ UNCHANGED toolVars

\* ------------------------------------ worker thread: target (lines 515-520)
\* ------------------------- running _run_script_with_monitoring (552-610)
workerFrame == <<pipeVars, execVars>>

WorkerLeavesCaller_AppendsToErrors ==
    /\ r_errors' = Append(r_errors, <<"Script execution failed", "worker">>)
    /\ UNCHANGED <<pipeVars, execPc, r_ret, tempFile, tempBound, clock,
                   aliveAtCheck, execution_result, r_raised>>

\* Lines 515-520 and 557-610: target, _run_script_with_monitoring and
\* run_async assign their own locals and the nonlocal slots result and
\* exception, and nothing of the calling thread.
WorkerLeavesCaller == UNCHANGED workerFrame

\* The handler classes of lines 607 and 519.
MonitorHandlerClass == "Exception"
TargetHandlerClass == "Exception"

\* Lines 607-608, then 519-520: an exception inside the monitored run is
\* wrapped with its message and stored in the worker's exception slot.
WorkerFail(msg) ==
    /\ w_exception' = << <<"Script execution error">> \o msg >>
    /\ workerPc' = "dead"
    /\ UNCHANGED w_result

\* Line 610, then 518: the monitored run returns and the result slot is set.
WorkerReturn ==
    /\ w_result' = << [summary |-> RunnerSummary, warnings |-> <<>>] >>
    /\ workerPc' = "dead"
    /\ UNCHANGED w_exception

WorkerHang ==
    /\ workerPc' = "hung"
    /\ UNCHANGED <<w_result, w_exception>>

\* The message of the exception a call of main ends with.
MainMessage(outcome) ==
    IF outcome = "raiseRuntimeError" THEN <<"runtime boom">> ELSE <<"boom">>

\* What the worker does once a call of main made on its own thread ends.
AfterMain(outcome) ==
    CASE outcome = "ok" -> WorkerReturn
      [] outcome = "hang" -> WorkerHang
      [] OTHER -> WorkerFail(MainMessage(outcome))

\* Lines 562-563: open and read the transient file.
WorkerOpen ==
    /\ workerPc = "open"
    /\ IF tempFile = "exists"
       THEN /\ fileSeen' = TRUE
            /\ workerPc' = "exec"
            /\ UNCHANGED <<w_result, w_exception>>
       ELSE /\ WorkerFail(<<"FileNotFoundError">>)
            /\ UNCHANGED fileSeen
    /\ UNCHANGED <<mainCalls, loop_running, invoked, nestedPc, n_exception>>
    /\ WorkerLeavesCaller
    /\ UNCHANGED toolVars

\* Line 572: exec(script_content, namespace) with __name__ = "__main__"; a
\* script with a __name__ guard calls its main here.  SystemExit passes the
\* handlers of lines 607 and 519 and ends the thread with both slots empty.
WorkerExec ==
    /\ workerPc = "exec"
    /\ CASE script.body = "raise" ->
              /\ WorkerFail(<<"boom">>)
              /\ UNCHANGED mainCalls
         [] script.body = "exit" ->
              /\ IF IsInstance("SystemExit", MonitorHandlerClass)
                    \/ IsInstance("SystemExit", TargetHandlerClass)
                 THEN WorkerFail(<<"SystemExit">>)
                 ELSE /\ workerPc' = "dead"
                      /\ UNCHANGED <<w_result, w_exception>>
              /\ UNCHANGED mainCalls
         [] script.body = "hang" ->
              /\ WorkerHang
              /\ UNCHANGED mainCalls
         [] OTHER ->
              IF script.guard
              THEN /\ mainCalls' = mainCalls + 1
                   /\ CASE script.mainOutcome = "ok" ->
                             /\ workerPc' = "main"
                             /\ UNCHANGED <<w_result, w_exception>>
                        [] script.mainOutcome = "hang" -> WorkerHang
                        [] OTHER -> WorkerFail(MainMessage(script.mainOutcome))
              ELSE /\ workerPc' = "main"
                   /\ UNCHANGED <<w_result, w_exception, mainCalls>>
    /\ UNCHANGED <<fileSeen, loop_running, invoked, nestedPc, n_exception>>
    /\ WorkerLeavesCaller
    /\ UNCHANGED toolVars

\* Lines 575-603: how main is invoked, from its kind and from whether
\* asyncio.get_running_loop() finds a loop on the worker's thread.
MainStrategy_AlwaysDirect(kind, loop) ==
    IF kind = "none" THEN "skip" ELSE "direct"

MainStrategy(kind, loop) ==
    CASE kind = "none" -> "skip"
      [] kind = "sync" -> "direct"
      [] OTHER -> IF loop THEN "nested" ELSE "direct"

\* Lines 575-603: find main and call it.  The loop is looked for only when
\* main is a coroutine function (line 579).
WorkerMain ==
    /\ workerPc = "main"
    /\ \E loop \in BOOLEAN :
         /\ loop_running' = IF script.main = "async" THEN <<loop>> ELSE loop_running
         /\ LET strategy == MainStrategy(script.main, loop) IN
            CASE strategy = "skip" ->
                   /\ WorkerReturn
                   /\ UNCHANGED <<mainCalls, invoked, nestedPc>>
              [] strategy = "direct" ->
                   \* line 603, or line 579 raises RuntimeError and line 601
                   \* runs main
                   /\ mainCalls' = mainCalls + 1
                   /\ invoked' = Append(invoked, "direct")
                   /\ AfterMain(script.mainOutcome)
                   /\ UNCHANGED nestedPc
              [] OTHER ->
                   \* lines 593-594: start the nested thread
                   /\ nestedPc' = "run"
                   /\ workerPc' = "nested_join"
                   /\ UNCHANGED <<w_result, w_exception, mainCalls, invoked>>
    /\ UNCHANGED <<fileSeen, n_exception>>
    /\ WorkerLeavesCaller
    /\ UNCHANGED toolVars

\* Lines 586-591: run_async on the nested thread.
NestedRun ==
    /\ nestedPc = "run"
    /\ mainCalls' = mainCalls + 1
    /\ invoked' = Append(invoked, "nested")
    /\ CASE script.mainOutcome = "ok" ->
              /\ nestedPc' = "dead"
              /\ UNCHANGED n_exception
         [] script.mainOutcome = "hang" ->
              /\ nestedPc' = "hung"
              /\ UNCHANGED n_exception
         [] OTHER ->
              /\ nestedPc' = "dead"
              /\ n_exception' = <<script.mainOutcome>>
    /\ UNCHANGED <<workerPc, w_result, w_exception, fileSeen, loop_running>>
    /\ WorkerLeavesCaller
    /\ UNCHANGED toolVars

\* The handler class of line 599, which encloses the raise of line 598.
LoopHandlerClass == "RuntimeError"

\* The class of the exception a call of main ends with.
MainClass(outcome) ==
    IF outcome = "raiseRuntimeError" THEN "RuntimeError" ELSE "ValueError"

\* The message of the RuntimeError asyncio.run raises on a thread whose
\* loop is running.
LoopActiveMessage == <<"asyncio.run() cannot be called from a running event loop">>

\* Lines 595-601: thread.join() without timeout, then the nested thread's
\* exception is raised again.  A RuntimeError is taken by the handler of line
\* 599; asyncio.run at line 601 then raises, the loop being active, before
\* it drives the new coroutine, and that second exception is the one wrapped
\* at line 608.
WorkerNestedJoin ==
    /\ workerPc = "nested_join"
    /\ nestedPc = "dead"
    /\ IF n_exception = <<>>
       THEN WorkerReturn
       ELSE IF IsInstance(MainClass(n_exception[1]), LoopHandlerClass)
            THEN WorkerFail(LoopActiveMessage)
            ELSE WorkerFail(MainMessage(n_exception[1]))
    /\ UNCHANGED <<fileSeen, mainCalls, loop_running, invoked, nestedPc, n_exception>>
    /\ WorkerLeavesCaller
    /\ UNCHANGED toolVars

\* ------------------------------------------------------------------ system
CallerNext ==
    \/ ResolveInput \/ EmptyCheck \/ SyntaxCheck \/ ImportValidation
    \/ Transform \/ RunnerCall \/ RunnerReturned \/ RunnerRaised
    \/ Overall \/ Synth
    \/ ExecCreate \/ ExecWrite \/ ExecPrepExcept \/ ExecStart \/ Tick
    \/ ExecJoin \/ ExecCheck \/ ExecFinally

WorkerNext == WorkerOpen \/ WorkerExec \/ WorkerMain \/ WorkerNestedJoin

Next == CallerNext \/ WorkerNext \/ NestedRun

Spec == Init /\ [][Next]_vars

\* ---------------------------------------------- the runner on its own
\* The states in which test_pylabrobot_script reaches line 349: a source
\* that parsed, went through the import stage and was transformed.
RunnerInit ==
    /\ args \in Args
    /\ script \in Scripts
    /\ pc = "run"
    /\ input_kind \in {"file", "string"}
    /\ script_content = "code"
    /\ parsed = "ok"
    /\ import_results = <<ValidateImports(<<>>)>>
    /\ test_results = [syntax_valid |-> TRUE, imports_valid |-> TRUE,
                       simulation_successful |-> FALSE,
                       tracking_enabled |-> args.enable_tracking,
                       input_type |-> input_kind]
    /\ execution_summary = ZeroSummary
    /\ errors = <<>>
    /\ warnings = <<>>
    /\ overall = FALSE
    /\ stages = <<"syntax", "imports", "transform">>
    /\ result = <<>>
    /\ report = <<>>
    /\ escaped = <<>>
    /\ execPc = "idle"
    /\ r_errors = <<>>
    /\ r_ret = <<>>
    /\ tempFile = "absent"
    /\ tempBound = FALSE
    /\ clock = 0
    /\ aliveAtCheck = FALSE
    /\ execution_result = <<>>
    /\ r_raised = <<>>
    /\ workerPc = "idle"
    /\ w_result = <<>>
    /\ w_exception = <<>>
    /\ fileSeen = FALSE
    /\ mainCalls = 0
    /\ loop_running = <<>>
    /\ invoked = <<>>
    /\ nestedPc = "idle"
    /\ n_exception = <<>>
    /\ ToolsIdle

RunnerCallerNext ==
    \/ RunnerCall
    \/ ExecCreate \/ ExecWrite \/ ExecPrepExcept \/ ExecStart \/ Tick
    \/ ExecJoin \/ ExecCheck \/ ExecFinally

RunnerNext == RunnerCallerNext \/ WorkerNext \/ NestedRun

\* The calling thread and the clock of its bounded join keep running; the
\* worker and the nested thread run the submitted script and may never be
\* scheduled again or never end.
RunnerFairSpec == RunnerInit /\ [][RunnerNext]_vars /\ WF_vars(RunnerCallerNext)

\* ---------------------------------------------- _modify_script_for_testing
\* A text is the sequence of its pieces; "\n" and one level of indentation
\* are pieces of their own.
MaxLines == 3       \* a submitted source has at most this many lines

NL == "\n"
Indent == "    "

\* The source lines the submitted scripts are made of.
SourceLines ==
    { <<"import ", "os">>,
      <<"#", " setup">>,
      <<"@", "functools.cache">>,
      <<"def", " main():">>,
      <<"async def", " main():">>,
      <<"class", " Helper:">>,
      <<"if __name__", " == '__main__':">>,
      <<Indent, "def", " run(self):">>,
      <<Indent, "pass">>,
      <<Indent, Indent, "pass">>,
      <<"lh = ", "STAR", "Backend()">>,
      <<"backend = dict", "(">>,
      <<Indent, "def", "ault=", "STAR", "Backend()", ",">>,
      <<")">> }

Insert_Overwrite(lines, k, x) ==
    IF k < Len(lines)
    THEN SubSeq(lines, 1, k) \o <<x>> \o SubSeq(lines, k + 2, Len(lines))
    ELSE Append(lines, x)

\* list.insert(k, x)
Insert(lines, k, x) ==
    SubSeq(lines, 1, k) \o <<x>> \o SubSeq(lines, k + 1, Len(lines))

\* "\n".join(lines)
RECURSIVE Join(_)
Join(lines) ==
    IF lines = <<>> THEN <<>>
    ELSE IF Len(lines) = 1 THEN lines[1]
    ELSE lines[1] \o <<NL>> \o Join(Tail(lines))

\* text.split("\n")
RECURSIVE Split(_)
Split(text) ==
    IF \A i \in DOMAIN text : text[i] # NL THEN <<text>>
    ELSE LET k == CHOOSE i \in DOMAIN text :
                     text[i] = NL /\ \A j \in 1..(i - 1) : text[j] # NL
         IN <<SubSeq(text, 1, k - 1)>> \o Split(SubSeq(text, k + 1, Len(text)))

\* The number of places of text at which pat starts.
Count(text, pat) ==
    Cardinality({ k \in 1..(Len(text) - Len(pat) + 1) :
                    SubSeq(text, k, k + Len(pat) - 1) = pat })

RECURSIVE Replace_FirstOnly(_, _, _)
Replace_FirstOnly(text, old, new) ==
    IF Len(text) < Len(old) THEN text
    ELSE IF SubSeq(text, 1, Len(old)) = old
         THEN new \o SubSeq(text, Len(old) + 1, Len(text))
         ELSE <<Head(text)>> \o Replace_FirstOnly(Tail(text), old, new)

\* str.replace(old, new): every occurrence, left to right, not overlapping.
RECURSIVE Replace(_, _, _)
Replace(text, old, new) ==
    IF Len(text) < Len(old) THEN text
    ELSE IF SubSeq(text, 1, Len(old)) = old
         THEN new \o Replace(SubSeq(text, Len(old) + 1, Len(text)), old, new)
         ELSE <<Head(text)>> \o Replace(Tail(text), old, new)

\* Line 436: the pair of the replacements list.
HardwareConstruction == <<"STAR", "Backend()">>
SimulationConstruction == <<"LiquidHandlerChatterbox", "Backend()">>

\* line.strip(), as far as the start of the line goes
RECURSIVE StripLine(_)
StripLine(line) ==
    IF line # <<>> /\ Head(line) = Indent THEN StripLine(Tail(line)) ELSE line

\* line.strip().startswith(prefixes)
StartsWith(line, prefixes) ==
    StripLine(line) # <<>> /\ Head(StripLine(line)) \in prefixes

\* Lines 441-449: the loop that finds where the import line goes.
InsertAt(lines) ==
    LET F[i \in 0..Len(lines)] ==
          IF i = 0 THEN [at |-> 0, broke |-> FALSE]
          ELSE IF F[i - 1].broke THEN F[i - 1]
          ELSE IF StartsWith(lines[i], {"from ", "import ", "#"})
               THEN [at |-> i, broke |-> FALSE]
          ELSE IF StartsWith(lines[i], {"async def", "def", "class", "if __name__"})
               THEN [at |-> F[i - 1].at, broke |-> TRUE]
          ELSE [at |-> i, broke |-> FALSE]
    IN F[Len(lines)].at

\* Line 450: the inserted import line.
ImportLine ==
    <<"from ", "pylabrobot.liquid_handling.backends import ",
      "LiquidHandlerChatterbox", "Backend">>

\* Lines 454-475: tracking_setup, one string of several lines.
TrackingSetup(enable_tracking) ==
    LET flag == IF enable_tracking THEN "True" ELSE "False" IN
    <<NL, "#", IF enable_tracking THEN " Enable PyLabRobot tracking for validation"
                                  ELSE " Disable PyLabRobot tracking for testing",
      NL, "try:",
      NL, Indent, "from ", "pylabrobot.resources import set_tip_tracking, set_volume_tracking",
      NL, Indent, "set_tip_tracking(", flag, ")",
      NL, Indent, "set_volume_tracking(", flag, ")",
      NL, "except", " ImportError:",
      NL, Indent, "pass", "  # Tracking not available in this PyLabRobot version",
      NL, NL>>

\* Lines 478-487: the loop that finds where the tracking snippet goes.
InsertIndex(lines) ==
    LET hits == { i \in DOMAIN lines :
                    StartsWith(lines[i], {"async def", "def", "if __name__"}) }
    IN IF hits = {} THEN 0
       ELSE (CHOOSE i \in hits : \A j \in hits : i <= j) - 1

\* ---- ast.parse, for the lines such texts are made of (lines 329-336)
IndentOf(line) == Len(line) - Len(StripLine(line))

LineKind(line) ==
    LET t == StripLine(line) IN
    IF t = <<>> THEN "blank"
    ELSE IF Head(t) = "#" THEN "comment"
    ELSE IF Head(t) = "@" THEN "decorator"
    ELSE IF Head(t) = ")" THEN "close"
    ELSE IF t[Len(t)] = "(" THEN "open"
    ELSE IF t[Len(t)] = "," THEN "item"
    ELSE IF Head(t) = "try:" THEN "try"
    ELSE IF Head(t) = "except" THEN "except"
    ELSE IF Head(t) \in {"def", "async def", "class"} THEN "def"
    ELSE IF Head(t) = "if __name__" THEN "if"
    ELSE "simple"

\* The parser before the first line: no bracket open, block level 0, no
\* block or definition due, no try waiting for its handler.
ParseStart ==
    [ok |-> TRUE, depth |-> 0, level |-> 0, expect |-> "any", try |-> -1]

\* The parser after one more line.  Inside brackets only items, comments
\* and the closing bracket may follow.  Outside, a line after a block header
\* is one level deeper, a line after a decorator is a definition at the same
\* level, any other line is at most as deep as the line before, and the
\* line that ends a try block is its handler.
ParseLine(st, line) ==
    LET kind == LineKind(line)
        i == IndentOf(line)
        bad == [st EXCEPT !.ok = FALSE]
    IN
    IF ~st.ok THEN st
    ELSE IF st.depth > 0
         THEN IF kind \in {"blank", "comment", "item"} THEN st
              ELSE IF kind = "close" THEN [st EXCEPT !.depth = 0]
              ELSE bad
    ELSE IF kind \in {"blank", "comment"} THEN st
    ELSE IF kind \in {"item", "close"} THEN bad
    ELSE IF st.expect = "block" /\ i # st.level + 1 THEN bad
    ELSE IF st.expect = "def" /\ (i # st.level \/ kind # "def") THEN bad
    ELSE IF st.expect = "any" /\ i > st.level THEN bad
    ELSE IF st.try # -1 /\ i <= st.try /\ ~(i = st.try /\ kind = "except") THEN bad
    ELSE IF kind = "except" /\ st.try # i THEN bad
    ELSE [ok |-> TRUE,
          depth |-> IF kind = "open" THEN 1 ELSE 0,
          level |-> i,
          expect |-> IF kind \in {"def", "if", "try", "except"} THEN "block"
                     ELSE IF kind = "decorator" THEN "def"
                     ELSE "any",
          try |-> IF kind = "try" THEN i
                  ELSE IF kind = "except" THEN -1
                  ELSE st.try]

ParseState(lines) ==
    LET F[i \in 0..Len(lines)] ==
          IF i = 0 THEN ParseStart ELSE ParseLine(F[i - 1], lines[i])
    IN F[Len(lines)]

\* ast.parse(text) does not raise SyntaxError.
Parses(text) ==
    LET st == ParseState(Split(text)) IN
    st.ok /\ st.depth = 0 /\ st.expect = "any" /\ st.try = -1

\* The sources that reach line 346: not empty, and parsed at line 331.
ValidSources ==
    { Join(ls) : ls \in { l \in SeqsUpTo(SourceLines, MaxLines) :
                            l # <<>> /\ Parses(Join(l)) } }

transformFrame == <<pipeVars, execVars, workerVars, t_source, importVars,
                    wetlabVars, docVars, reportVars>>

\* Lines 433-439.
ReplaceBackends ==
    /\ t_pc = "replace"
    /\ modified_script' = Replace(modified_script, HardwareConstruction,
                                  SimulationConstruction)
    /\ t_pc' = "import"
    /\ UNCHANGED <<insert_at, insert_index>>
    /\ UNCHANGED transformFrame

\* Lines 441-451.
InsertImport ==
    /\ t_pc = "import"
    /\ LET lines == Split(modified_script) IN
       /\ insert_at' = <<InsertAt(lines)>>
       /\ modified_script' = Join(Insert(lines, InsertAt(lines), ImportLine))
    /\ t_pc' = "tracking"
    /\ UNCHANGED insert_index
    /\ UNCHANGED transformFrame

\* Lines 453-492.
InsertTracking ==
    /\ t_pc = "tracking"
    /\ LET lines == Split(modified_script) IN
       /\ insert_index' = <<InsertIndex(lines)>>
       /\ modified_script' = Join(Insert(lines, InsertIndex(lines),
                                         TrackingSetup(args.enable_tracking)))
    /\ t_pc' = "done"
    /\ UNCHANGED insert_at
    /\ UNCHANGED transformFrame

\* Lines 431-492 as one function of its two arguments.
ModifyScriptForTesting(script_content_, enable_tracking) ==
    LET replaced == Replace(script_content_, HardwareConstruction,
                            SimulationConstruction)
        lines1 == Split(replaced)
        imported == Join(Insert(lines1, InsertAt(lines1), ImportLine))
        lines2 == Split(imported)
    IN Join(Insert(lines2, InsertIndex(lines2), TrackingSetup(enable_tracking)))

\* A second call of _modify_script_for_testing, handed the text the first
\* call returned and enable_tracking = False.
ModifyAgain ==
    /\ t_pc = "done"
    /\ modified_script' = ModifyScriptForTesting(modified_script, FALSE)
    /\ t_pc' = "again"
    /\ UNCHANGED <<insert_at, insert_index>>
    /\ UNCHANGED transformFrame

\* _modify_script_for_testing on its own, called with a source that parsed.
TransformInit ==
    /\ args \in { a \in Args : a.timeout_seconds = 1 /\ ~a.save_test_report }
    /\ script = NoScript
    /\ PipelineStart
    /\ ImportIdle /\ WetlabIdle /\ DocsIdle /\ ReportIdle
    /\ t_pc = "replace"
    /\ t_source \in ValidSources
    /\ modified_script = t_source
    /\ insert_at = <<>>
    /\ insert_index = <<>>

TransformNext == ReplaceBackends \/ InsertImport \/ InsertTracking \/ ModifyAgain

TransformSpec == TransformInit /\ [][TransformNext]_vars

\* --------------------------- _validate_pylabrobot_imports on its own
\* A collected reference: the statement it comes from, what importing its
\* module does, and whether that module defines the imported name.
\*   import_name    import pylabrobot
\*   import_dotted  import pylabrobot.x         (module pylabrobot, name x)
\*   from_name      from pylabrobot.x import Y  (module pylabrobot.x, name Y)
\*   from_star      from pylabrobot.x import *  (module pylabrobot.x, name *)
ImportForms == {"import_name", "import_dotted", "from_name", "from_star"}
LoadOutcomes == {"ok", "ImportError", "exception"}

References ==
    { r \in [form : ImportForms, load : LoadOutcomes, defined : BOOLEAN] :
        (r.form \in {"import_name", "from_star"} \/ r.load # "ok") => r.defined }

\* Line 412: hasattr(module, class_name).  No module has an attribute "*".
HasAttr(ref) == IF ref.form = "from_star" THEN FALSE ELSE ref.defined

\* Lines 401-423: how the lookup of one reference ends.
ResolveRef(ref) ==
    IF ref.load # "ok" THEN ref.load
    ELSE IF ref.form = "import_name" THEN "ok"
    ELSE IF HasAttr(ref) THEN "ok"
    ELSE "missing"

importFrame == <<pipeVars, execVars, workerVars, transformVars, wetlabVars,
                 docVars, reportVars, pylabrobot_imports>>

\* Lines 400-423: one round of the loop over the collected references.
ResolveNext ==
    /\ i_pc = "loop"
    /\ i_k < Len(pylabrobot_imports)
    /\ LET k == i_k + 1
           outcome == ResolveRef(pylabrobot_imports[k])
       IN /\ i_k' = k
          /\ import_errors' =
               CASE outcome = "ImportError" ->
                      Append(import_errors, <<"Failed to import", outcome>>)
                 [] outcome = "missing" ->
                      Append(import_errors, <<"Cannot find", outcome>>)
                 [] OTHER -> import_errors
          /\ import_warnings' =
               IF outcome = "exception"
               THEN Append(import_warnings, <<"Warning validating import", outcome>>)
               ELSE import_warnings
    /\ UNCHANGED <<i_pc, i_result>>
    /\ UNCHANGED importFrame

\* Line 428.
ImportReturn ==
    /\ i_pc = "loop"
    /\ i_k = Len(pylabrobot_imports)
    /\ i_result' = <<[success |-> Len(import_errors) = 0,
                      errors |-> import_errors,
                      warnings |-> import_warnings]>>
    /\ i_pc' = "done"
    /\ UNCHANGED <<i_k, import_errors, import_warnings>>
    /\ UNCHANGED importFrame

\* Lines 381-398: the references collected from a source that parses.
ImportInit ==
    /\ PipelineIdle
    /\ TransformIdle /\ WetlabIdle /\ DocsIdle /\ ReportIdle
    /\ i_pc = "loop"
    /\ pylabrobot_imports \in SeqsUpTo(References, MaxImports)
    /\ i_k = 0
    /\ import_errors = <<>>
    /\ import_warnings = <<>>
    /\ i_result = <<>>

ImportNext == ResolveNext \/ ImportReturn

ImportSpec == ImportInit /\ [][ImportNext]_vars

\* ------------------------------------------------- upsert_wetlab_results
MaxBatch == 2       \* one call is handed at most this many records
MaxUpserts == 3     \* at most this many upserts are executed in a run

\* The records handed in: field values as given by the caller, before
\* lines 817-829 convert them.  Timestamps (created_at, updated_at) are left
\* out of the rows.
Record(sample, value) ==
    [experiment_id |-> "e1", sample_id |-> sample, assay_name |-> "elisa",
     condition |-> "ctrl", replicate |-> "1", measurement_value |-> value,
     measurement_unit |-> "mg", measured_at |-> "t1"]

FullRecords ==
    { Record("s1", "1.5"), Record("s1", "2.5"), Record(" s1 ", "1.50"),
      Record(" s1 ", "abc"), Record("s2", "2.5"), Record("s2", "1.50") }

\* A record without one of its required fields.
Without(rec, field) == [f \in (DOMAIN rec) \ {field} |-> rec[f]]

\* An element of records that is no dictionary (a text, say).  It has none
\* of a record's fields; the field not_a_dict marks it.
NotADictionary == [not_a_dict |-> "x"]

IsDict(rec) == "not_a_dict" \notin DOMAIN rec

RawRecords ==
    FullRecords \cup { Without(CHOOSE r \in FullRecords : TRUE, "measured_at"),
                       NotADictionary }

\* Line 661: _WETLAB_REQUIRED_RECORD_FIELDS
RequiredRecordFields ==
    {"experiment_id", "sample_id", "assay_name", "condition", "replicate",
     "measurement_value", "measurement_unit", "measured_at"}

\* Line 660: _WETLAB_KEY_FIELDS
KeyFields == {"experiment_id", "sample_id", "assay_name", "condition", "replicate"}

\* str(x).strip()
StripText(t) == IF t = " s1 " THEN "s1" ELSE t

\* int(x)
IntOf(t) == CHOOSE n \in 0..9 : ToString(n) = t

\* float(x) raises ValueError for a text that is no number.
IsNumber(t) == t \in {"1.5", "1.50", "2.5"}

\* float(x), written as Python prints it
FloatOf(t) == IF t = "1.50" THEN "1.5" ELSE t

\* Lines 817-829: the values bound to the statement.
Values(rec) ==
    [experiment_id |-> StripText(rec.experiment_id),
     sample_id |-> StripText(rec.sample_id),
     assay_name |-> StripText(rec.assay_name),
     condition |-> StripText(rec.condition),
     replicate |-> IntOf(rec.replicate),
     measurement_value |-> FloatOf(rec.measurement_value),
     measurement_unit |-> StripText(rec.measurement_unit),
     operator |-> <<>>, instrument |-> <<>>,
     measured_at |-> StripText(rec.measured_at),
     notes |-> <<>>]

KeyOf(row) == [f \in KeyFields |-> row[f]]

\* A row of the table: the bound values under a result_id.
Row(id, values) ==
    [f \in {"result_id"} \cup DOMAIN values |->
        IF f = "result_id" THEN id ELSE values[f]]

UpsertRow_AlwaysInsert(rows, id, values) == rows \cup {Row(id, values)}

\* Lines 788-802 with the UNIQUE constraint of line 723: INSERT ... ON
\* CONFLICT(key) DO UPDATE.  A row with the key keeps its result_id and takes
\* the new values; otherwise a row is added.
UpsertRow(rows, id, values) ==
    IF \E r \in rows : KeyOf(r) = KeyOf(values)
    THEN { IF KeyOf(r) = KeyOf(values) THEN Row(r.result_id, values) ELSE r :
             r \in rows }
    ELSE rows \cup {Row(id, values)}

Failed_EndsTransaction(st, idx, why) ==
    [st EXCEPT !.error_details = @ \o <<ToString(idx), why>>,
               !.rows = st.rows0, !.done = st.done0, !.success_count = 0]

\* Lines 808, 813, 833: a rejected record adds "Record idx: why" to
\* error_details and the loop goes on (continue at lines 809 and 814, the
\* handler of line 832); the statements executed before it stay in the
\* transaction.
Failed(st, idx, why) ==
    [st EXCEPT !.error_details = @ \o <<ToString(idx), why>>]

\* Lines 806-833: one pass of the loop over the records, from the state st =
\* [rows, next_id, done, success_count, error_details]; rows0 and done0 are
\* the table and the log as they were when the call began.
UpsertOne(st, idx, rec) ==
    IF ~IsDict(rec)
    THEN Failed(st, idx, "not a dictionary.")
    ELSE IF RequiredRecordFields \ DOMAIN rec # {}
    THEN Failed(st, idx, "missing required fields")
    ELSE IF ~IsNumber(rec.measurement_value)
    THEN Failed(st, idx, "could not convert string to float")
    ELSE [st EXCEPT
            !.rows = UpsertRow(st.rows, st.next_id, Values(rec)),
            !.next_id = st.next_id + 1,
            !.done = Append(st.done, [key |-> KeyOf(Values(rec)),
                                      value |-> Values(rec).measurement_value]),
            !.success_count = st.success_count + 1]

UpsertAll(st, records) ==
    LET F[i \in 0..Len(records)] ==
          IF i = 0 THEN st ELSE UpsertOne(F[i - 1], i, records[i])
    IN F[Len(records)]

\* Lines 804-805 with the transaction of line 785 just begun.
LoopStart ==
    [rows |-> wl_rows, next_id |-> wl_next_id, done |-> wl_upserted,
     success_count |-> 0, error_details |-> <<>>,
     rows0 |-> wl_rows, done0 |-> wl_upserted]

\* Lines 836-842: the first line and the three counts of the message.
UpsertMessage(records, st) ==
    <<"Wetlab result UPSERT completed.", ToString(Len(records)),
      ToString(st.success_count), ToString(Len(st.error_details) \div 2)>>

\* How many records a call may hand in when the run executes at most cap
\* upserts.
Room(cap) ==
    IF cap - Len(wl_upserted) < MaxBatch THEN cap - Len(wl_upserted)
    ELSE MaxBatch

upsertFrame == <<pipeVars, execVars, workerVars, transformVars, importVars,
                 docVars, reportVars>>
wetlabFrame == <<upsertFrame, upsertLoopVars>>

\* Lines 778-851: upsert_wetlab_results(db_path, records), in a run that
\* executes at most cap upserts.  The message is given by its first line and
\* its three counts; the lines of failure details are left out.
Upsert(cap) ==
    /\ \E db_path \in {"", "wetlab.db"},
          records \in SeqsUpTo(RawRecords, Room(cap)) :
         /\ IF records = <<>>
            THEN /\ wl_message' = << <<"Error: records must be a non-empty list of dictionaries.">> >>
                 /\ UNCHANGED <<wl_rows, wl_next_id, wl_upserted>>
            ELSE IF db_path = ""
            THEN \* _connect_wetlab_db raises ValueError (line 693)
                 /\ wl_message' = << <<"Error upserting wetlab results", "db_path cannot be empty.">> >>
                 /\ UNCHANGED <<wl_rows, wl_next_id, wl_upserted>>
            ELSE LET st == UpsertAll(LoopStart, records)
                 IN /\ wl_rows' = st.rows
                    /\ wl_next_id' = st.next_id
                    /\ wl_upserted' = st.done
                    /\ wl_message' = <<UpsertMessage(records, st)>>
    /\ UNCHANGED wetlabFrame

UpsertWetlabResults == Upsert(MaxUpserts)

\* The table as init_wetlab_results_table leaves it: empty.
WetlabInit ==
    /\ PipelineIdle
    /\ TransformIdle /\ ImportIdle /\ DocsIdle /\ ReportIdle
    /\ WetlabIdle

WetlabNext == UpsertWetlabResults

WetlabSpec == WetlabInit /\ [][WetlabNext]_vars

\* ----------------------------- upsert_wetlab_results, record by record
\* Lines 780-786: the call; the checks of the arguments, then the loop.
UpsertCall ==
    /\ u_pc = "idle"
    /\ \E db_path \in {"", "wetlab.db"},
          records \in SeqsUpTo(RawRecords, Room(MaxUpserts)) :
         IF records = <<>>
         THEN /\ wl_message' = << <<"Error: records must be a non-empty list of dictionaries.">> >>
              /\ UNCHANGED upsertLoopVars
         ELSE IF db_path = ""
         THEN /\ wl_message' = << <<"Error upserting wetlab results", "db_path cannot be empty.">> >>
              /\ UNCHANGED upsertLoopVars
         ELSE /\ u_pc' = "loop"
              /\ u_records' = records
              /\ u_idx' = 0
              /\ u_st' = <<LoopStart>>
              /\ UNCHANGED wl_message
    /\ UNCHANGED <<wl_rows, wl_next_id, wl_upserted>>
    /\ UNCHANGED upsertFrame

\* Lines 806-833: one pass of the loop.
UpsertRecord ==
    /\ u_pc = "loop"
    /\ u_idx < Len(u_records)
    /\ u_idx' = u_idx + 1
    /\ u_st' = <<UpsertOne(u_st[1], u_idx + 1, u_records[u_idx + 1])>>
    /\ UNCHANGED <<u_pc, u_records, wl_rows, wl_next_id, wl_upserted, wl_message>>
    /\ UNCHANGED upsertFrame

\* Lines 835-849: the loop is over, "with conn" commits and the message is
\* returned.
UpsertReturn ==
    /\ u_pc = "loop"
    /\ u_idx = Len(u_records)
    /\ wl_rows' = u_st[1].rows
    /\ wl_next_id' = u_st[1].next_id
    /\ wl_upserted' = u_st[1].done
    /\ wl_message' = <<UpsertMessage(u_records, u_st[1])>>
    /\ u_pc' = "idle"
    /\ u_records' = <<>>
    /\ u_idx' = 0
    /\ u_st' = <<>>
    /\ UNCHANGED upsertFrame

UpsertLoopNext == UpsertCall \/ UpsertRecord \/ UpsertReturn

UpsertLoopSpec == WetlabInit /\ [][UpsertLoopNext]_vars

\* ------------------------- update_wetlab_result and delete_wetlab_result
\* A key argument: a dictionary with its fields, or something else.
KeyDict(sample) ==
    [experiment_id |-> "e1", sample_id |-> sample, assay_name |-> "elisa",
     condition |-> "ctrl", replicate |-> "1"]

KeyArguments ==
    { [is_dict |-> TRUE, fields |-> KeyDict(s)] : s \in {"s1", " s1 ", "s2"} }
    \cup { [is_dict |-> TRUE, fields |-> Without(KeyDict("s1"), "replicate")],
           [is_dict |-> FALSE, fields |-> KeyDict("s1")] }

\* An updates argument: a dictionary, given by its items in order, or
\* something else.
UpdateArguments ==
    { [is_dict |-> TRUE, items |-> i] :
        i \in { <<>>,
                << <<"measurement_value", "2.5">> >>,
                << <<"measurement_value", "abc">> >>,
                << <<"measurement_unit", "g">> >>,
                << <<"measurement_unit", "g">>, <<"measurement_value", "1.50">> >>,
                << <<"sample_id", "s2">> >> } }
    \cup { [is_dict |-> FALSE, items |-> <<>>] }

\* The calls made: every key with every updates on the database, and one
\* call with an empty db_path, which is looked at only once key and updates
\* have passed their checks (line 867).
UpdateCalls ==
    { [db_path |-> "wetlab.db", key |-> k, updates |-> u] :
        k \in KeyArguments, u \in UpdateArguments }
    \cup { [db_path |-> "",
            key |-> [is_dict |-> TRUE, fields |-> KeyDict("s1")],
            updates |-> [is_dict |-> TRUE,
                         items |-> << <<"measurement_value", "2.5">> >>]] }

DeleteCalls ==
    { [db_path |-> "wetlab.db", key |-> k] : k \in KeyArguments }
    \cup { [db_path |-> "", key |-> [is_dict |-> TRUE, fields |-> KeyDict("s1")]] }

UpdatableFields_WithSampleId ==
    {"measurement_value", "measurement_unit", "operator", "instrument",
     "measured_at", "notes", "sample_id"}

\* Line 671: _WETLAB_UPDATABLE_FIELDS
UpdatableFields ==
    {"measurement_value", "measurement_unit", "operator", "instrument",
     "measured_at", "notes"}

\* Lines 737-743: _validate_wetlab_key, <<>> for a valid key and the error
\* text otherwise.
ValidateWetlabKey(key) ==
    IF ~key.is_dict THEN <<"key must be a dictionary.">>
    ELSE IF KeyFields \ DOMAIN key.fields # {} THEN <<"Missing key fields">>
    ELSE <<>>

\* Lines 884-887 and 922-928: the key values bound to the statement.
KeyValues(fields) ==
    [experiment_id |-> StripText(fields.experiment_id),
     sample_id |-> StripText(fields.sample_id),
     assay_name |-> StripText(fields.assay_name),
     condition |-> StripText(fields.condition),
     replicate |-> IntOf(fields.replicate)]

\* Lines 873-879: the value bound for one item of updates.  The columns
\* operator, instrument and notes may be NULL and hold <<>> or <<text>>.
SetValue(field, value) ==
    IF field = "measurement_value" THEN FloatOf(value)
    ELSE IF field \in {"operator", "instrument", "notes"} THEN <<value>>
    ELSE value

\* float(value) at line 875 raises for one of the items.
ConversionFails(items) ==
    \E i \in DOMAIN items :
        items[i][1] = "measurement_value" /\ ~IsNumber(items[i][2])

\* SET field = ? for every item, in order, on one row.
SetFields(row, items) ==
    LET F[i \in 0..Len(items)] ==
          IF i = 0 THEN row
          ELSE [f \in DOMAIN row |->
                  IF f = items[i][1] THEN SetValue(items[i][1], items[i][2])
                  ELSE F[i - 1][f]]
    IN F[Len(items)]

\* Lines 890-895: UPDATE ... SET ... WHERE the five key columns match.
UpdateRows(rows, key, items) ==
    { IF KeyOf(r) = key THEN SetFields(r, items) ELSE r : r \in rows }

\* Line 723: the UNIQUE constraint holds for the rows.
UniqueKeys(rows) ==
    \A r1 \in rows, r2 \in rows : KeyOf(r1) = KeyOf(r2) => r1 = r2

Matching(rows, key) == Cardinality({ r \in rows : KeyOf(r) = key })

\* Lines 854-905: what update_wetlab_result(db_path, key, updates) returns
\* for one call and the rows it leaves.  An exception inside "with conn"
\* rolls the statement back.
UpdateResult(rows, call) ==
    LET db_path == call.db_path
        key == call.key
        updates == call.updates
        key_error == ValidateWetlabKey(key)
        invalid_fields ==
          { i \in DOMAIN updates.items :
              updates.items[i][1] \notin UpdatableFields }
        Returns(message) == [rows |-> rows, message |-> message]
    IN
    IF key_error # <<>>
    THEN Returns(<<"Error">> \o key_error)
    ELSE IF ~updates.is_dict \/ updates.items = <<>>
    THEN Returns(<<"Error", "updates must be a non-empty dictionary.">>)
    ELSE IF invalid_fields # {}
    THEN Returns(<<"Error", "unsupported update fields">>)
    ELSE IF db_path = ""
    THEN Returns(<<"Error updating wetlab result", "db_path cannot be empty.">>)
    ELSE IF ConversionFails(updates.items)
    THEN Returns(<<"Error updating wetlab result", "could not convert string to float">>)
    ELSE LET updated == UpdateRows(rows, KeyValues(key.fields), updates.items) IN
         IF ~UniqueKeys(updated)
         THEN Returns(<<"Error updating wetlab result", "UNIQUE constraint failed">>)
         ELSE [rows |-> updated,
               message |-> <<"Wetlab result update completed.",
                             ToString(Matching(rows, KeyValues(key.fields)))>>]

UpdateWith(call) ==
    /\ wl_rows' = UpdateResult(wl_rows, call).rows
    /\ wl_message' = <<UpdateResult(wl_rows, call).message>>
    /\ UNCHANGED <<wl_next_id, wl_upserted>>
    /\ UNCHANGED wetlabFrame

UpdateWetlabResult == \E call \in UpdateCalls : UpdateWith(call)

DeleteRows_ByExperiment(rows, key) ==
    { r \in rows : r.experiment_id # key.experiment_id }

\* Lines 918-929: DELETE ... WHERE the five key columns match.
DeleteRows(rows, key) == { r \in rows : KeyOf(r) # key }

\* Lines 908-939: what delete_wetlab_result(db_path, key) returns for one
\* call and the rows it leaves.
DeleteResult(rows, call) ==
    LET db_path == call.db_path
        key == call.key
        key_error == ValidateWetlabKey(key)
    IN
    IF key_error # <<>>
    THEN [rows |-> rows, message |-> <<"Error">> \o key_error]
    ELSE IF db_path = ""
    THEN [rows |-> rows,
          message |-> <<"Error deleting wetlab result", "db_path cannot be empty.">>]
    ELSE [rows |-> DeleteRows(rows, KeyValues(key.fields)),
          message |-> <<"Wetlab result deletion completed.",
                        ToString(Matching(rows, KeyValues(key.fields)))>>]

DeleteWith(call) ==
    /\ wl_rows' = DeleteResult(wl_rows, call).rows
    /\ wl_message' = <<DeleteResult(wl_rows, call).message>>
    /\ UNCHANGED <<wl_next_id, wl_upserted>>
    /\ UNCHANGED wetlabFrame

DeleteWetlabResult == \E call \in DeleteCalls : DeleteWith(call)

\* With updates and deletions between them, at most this many upserts are
\* executed in a run.
MaxStoreUpserts == 2

StoreUpsert == Upsert(MaxStoreUpserts)

\* The three writing operations on one database, in any order.
WetlabStoreNext == StoreUpsert \/ UpdateWetlabResult \/ DeleteWetlabResult

WetlabStoreSpec == WetlabInit /\ [][WetlabStoreNext]_vars

\* ----------------------------------------------- the documentation loader
\* Texts are given by their lengths in characters.
MaxDocs == 10           \* the archive holds at most this many documents of a section

MAX_DOC_CHARS == 50000  \* _MAX_DOC_CHARS
PerDocChars == 5000     \* the slice text[:5000] of line 151
NotesChars == 701       \* the length of the literal of lines 213-221
SeparatorChars == 2     \* "\n\n"

\* The documents an archive is made of: a long notebook and a short page.
ArchiveDocs ==
    { [name |-> "iswap.md", chars |-> 7000],
      [name |-> "foil-notes.md", chars |-> 300] }

\* Lines 166-180: the headings of the curated order, by their lengths, with
\* the keywords that select a document.
LiquidSections ==
    << [chars |-> 60, keywords |-> {"/hamilton-star/", "basic.ipynb", "basic", "getting-started"}],
       [chars |-> 12, keywords |-> {"iswap"}],
       [chars |-> 44, keywords |-> {"liquid-level", "lld", "level_detection", "level-detection"}],
       [chars |-> 9, keywords |-> {"z-probing", "z_probing", "zprobing", "z-prob"}],
       [chars |-> 4, keywords |-> {"foil"}],
       [chars |-> 17, keywords |-> {"96", "head", "mca", "96-head", "head-96"}],
       [chars |-> 47, keywords |-> {"liquid-classes", "liquid_classes", "hamilton-liquid-classes"}] >>

\* The keywords of LiquidSections found in the path of a document of the
\* liquid section (docs/user_guide/00_liquid-handling/hamilton-star/<name>).
KeywordsIn(name) ==
    IF name = "iswap.md" THEN {"/hamilton-star/", "iswap"}
    ELSE {"/hamilton-star/", "foil"}

\* Lines 203-205: the length of the title made from the file name ("Iswap",
\* "Foil Notes").
TitleChars(name) == IF name = "iswap.md" THEN 5 ELSE 10

Min(a, b) == IF a <= b THEN a ELSE b

SumOf(lens) ==
    LET F[i \in 0..Len(lens)] == IF i = 0 THEN 0 ELSE F[i - 1] + lens[i]
    IN F[Len(lens)]

\* The length of sep.join(parts)
JoinedChars(lens) ==
    IF lens = <<>> THEN 0 ELSE SumOf(lens) + SeparatorChars * (Len(lens) - 1)

\* Lines 148-151: what is collected from the archive, each text cut to
\* PerDocChars.
CollectDocs(archive) ==
    [i \in DOMAIN archive |->
        [name |-> archive[i].name, chars |-> Min(archive[i].chars, PerDocChars)]]

\* Lines 185-192: the first document not used yet whose path holds one of
\* the keywords, or 0.
PickFirst(named_docs, used, keywords) ==
    LET hits == { i \in DOMAIN named_docs :
                    i \notin used /\ KeywordsIn(named_docs[i].name) \cap keywords # {} }
    IN IF hits = {} THEN 0 ELSE CHOOSE i \in hits : \A j \in hits : i <= j

\* "## " heading "\n\n" text
PartChars(heading_chars, text_chars) == 3 + heading_chars + 2 + text_chars

\* Lines 160-208: the length of what _format_liquid_user_guide returns.
FormatLiquidChars(named_docs) ==
    LET S[s \in 0..Len(LiquidSections)] ==
          IF s = 0 THEN [used |-> {}, parts |-> <<>>]
          ELSE LET i == PickFirst(named_docs, S[s - 1].used, LiquidSections[s].keywords)
               IN IF i = 0 THEN S[s - 1]
                  ELSE [used |-> S[s - 1].used \cup {i},
                        parts |-> Append(S[s - 1].parts,
                                         PartChars(LiquidSections[s].chars,
                                                   named_docs[i].chars))]
        curated == S[Len(LiquidSections)]
        R[i \in 0..Len(named_docs)] ==
          IF i = 0 THEN curated.parts
          ELSE IF i \in curated.used THEN R[i - 1]
          ELSE Append(R[i - 1], PartChars(TitleChars(named_docs[i].name),
                                          named_docs[i].chars))
    IN JoinedChars(R[Len(named_docs)])

\* Lines 37-53: the length of what _load_pylabrobot_tutorial_content returns.
LoadedChars_NoCap(section, docs) ==
    IF docs = <<>> THEN 0
    ELSE IF section = "liquid" THEN FormatLiquidChars(docs)
    ELSE JoinedChars([i \in DOMAIN docs |-> docs[i].chars])

LoadedChars(section, docs) == Min(LoadedChars_NoCap(section, docs), MAX_DOC_CHARS)

docFrame == <<pipeVars, execVars, workerVars, transformVars, importVars,
              wetlabVars, reportVars, d_section, d_archive>>

\* Line 35: gh_docs = _collect_docs_from_github_zip(...)
Collect ==
    /\ d_pc = "collect"
    /\ gh_docs' = CollectDocs(d_archive)
    /\ d_pc' = "load"
    /\ UNCHANGED <<d_text, d_returned>>
    /\ UNCHANGED docFrame

\* Lines 37-54.
Load ==
    /\ d_pc = "load"
    /\ d_text' = <<LoadedChars(d_section, gh_docs)>>
    /\ d_pc' = "loaded"
    /\ UNCHANGED <<gh_docs, d_returned>>
    /\ UNCHANGED docFrame

\* Lines 223-225 and 229-231: the liquid function puts its notes in front of
\* the loaded text, the material function returns the loaded text.
GetDocumentation ==
    /\ d_pc = "loaded"
    /\ d_returned' = <<IF d_section = "liquid" THEN NotesChars + d_text[1]
                       ELSE d_text[1]>>
    /\ d_pc' = "done"
    /\ UNCHANGED <<gh_docs, d_text>>
    /\ UNCHANGED docFrame

DocsInit ==
    /\ PipelineIdle
    /\ TransformIdle /\ ImportIdle /\ WetlabIdle /\ ReportIdle
    /\ d_pc = "collect"
    /\ d_section \in {"liquid", "material"}
    /\ d_archive \in SeqsUpTo(ArchiveDocs, MaxDocs)
    /\ gh_docs = <<>>
    /\ d_text = <<>>
    /\ d_returned = <<>>

DocsNext == Collect \/ Load \/ GetDocumentation

DocsSpec == DocsInit /\ [][DocsNext]_vars

\* ------------------------------------- _create_test_result, several times
MaxInvocations == 2     \* at most this many invocations save a report
MaxSeconds == 2         \* the wall clock runs from second 0 to this second

\* What the invocations hand to _create_test_result: a run that passed and
\* one that stopped at the syntax stage.
Outcomes ==
    { [success |-> TRUE,
       test_results |-> [syntax_valid |-> TRUE, imports_valid |-> TRUE,
                         simulation_successful |-> TRUE,
                         tracking_enabled |-> FALSE, input_type |-> "string"],
       errors |-> <<>>],
      [success |-> FALSE,
       test_results |-> [syntax_valid |-> FALSE, imports_valid |-> FALSE,
                         simulation_successful |-> FALSE,
                         tracking_enabled |-> FALSE, input_type |-> "string"],
       errors |-> << <<"Syntax Error", "msg", "at line", "lineno">> >>] }

\* Lines 640-643: the directory written to.
ReportDir(test_report_dir) ==
    IF test_report_dir # "" THEN test_report_dir ELSE "gettempdir"

\* Line 645: time.strftime("%Y%m%d_%H%M%S"), one text for each second.
Timestamp(now) == ToString(now)

\* Lines 646-647.
ReportPath(test_report_dir, now) ==
    <<ReportDir(test_report_dir), "pylabrobot_test_report_", Timestamp(now), ".json">>

\* Lines 648-649: open(report_path, "w") creates the file or empties the one
\* that is there, and json.dump writes the content.
WriteFile(files, path, content) ==
    [p \in DOMAIN files \cup {path} |-> IF p = path THEN content ELSE files[p]]

reportFrame == <<pipeVars, execVars, workerVars, transformVars, importVars,
                 wetlabVars, docVars>>

\* Lines 613-656: _create_test_result with save_test_report = True, called by
\* one more invocation at second rp_now.
SaveReport ==
    /\ Len(rp_returned) < MaxInvocations
    /\ \E o \in Outcomes, test_report_dir \in {"", "reports"},
          persist \in PersistOutcomes :
         LET r == CreateTestResult(o.success, o.test_results, ZeroSummary,
                                   o.errors, <<>>, TRUE, persist)
             report_path == ReportPath(test_report_dir, rp_now)
         IN IF persist = "ok"
            THEN /\ rp_files' =
                      WriteFile(rp_files, report_path,
                                JsonDump(ResultDict(o.success, o.test_results,
                                                    ZeroSummary, o.errors, <<>>)))
                 /\ rp_returned' =
                      Append(rp_returned,
                             [r EXCEPT !.test_report_path = <<report_path>>])
            ELSE /\ rp_returned' = Append(rp_returned, r)
                 /\ UNCHANGED rp_files
    /\ UNCHANGED rp_now
    /\ UNCHANGED reportFrame

\* The wall clock reaches the next second.
SecondPasses ==
    /\ rp_now < MaxSeconds
    /\ rp_now' = rp_now + 1
    /\ UNCHANGED <<rp_files, rp_returned>>
    /\ UNCHANGED reportFrame

ReportInit ==
    /\ PipelineIdle
    /\ TransformIdle /\ ImportIdle /\ WetlabIdle /\ DocsIdle
    /\ ReportIdle

ReportNext == SaveReport \/ SecondPasses

ReportSpec == ReportInit /\ [][ReportNext]_vars

\* ================================================================ claims
IsPrefix(s, t) == Len(s) <= Len(t) /\ SubSeq(t, 1, Len(s)) = s

Mentions(entry, part) == \E i \in DOMAIN entry : entry[i] = part

AllFlagsFalse(tr) ==
    ~tr.syntax_valid /\ ~tr.imports_valid /\ ~tr.simulation_successful

SyntaxErrorEntry == <<"Syntax Error", "msg", "at line", "lineno">>

TimeoutEntry ==
    <<"Script execution", "timed out", "after",
      ToString(args.timeout_seconds), "seconds">>

NoResultEntry == <<"Script execution completed but returned no result">>

\* C1: when ast.parse raises SyntaxError, no later stage starts (no import
\* resolution, no transformation, no runner, no worker), the only error entry
\* is the syntax error with its line number, and the returned result has
\* success and all three stage flags false.
C1_SyntaxErrorAborts ==
    (parsed = "SyntaxError") =>
        /\ pc \in {"synth", "done"}
        /\ AllFlagsFalse(test_results)
        /\ errors = <<SyntaxErrorEntry>>
        /\ import_results = <<>>
        /\ \A i \in DOMAIN stages : stages[i] \in {"syntax", "synth"}
        /\ execPc = "idle" /\ workerPc = "idle" /\ tempFile = "absent"
        /\ (pc = "done" =>
              /\ result # <<>>
              /\ ~result[1].success
              /\ AllFlagsFalse(result[1].test_results)
              /\ result[1].errors = <<SyntaxErrorEntry>>)

C1_Witness ==
    pc = "done" /\ parsed = "SyntaxError" /\ result # <<>>

\* C2: every returned result has success equal to the conjunction of the
\* three stage flags it carries.
C2_SuccessIsConjunction ==
    (result # <<>>) =>
        (result[1].success <=>
            (/\ result[1].test_results.syntax_valid
             /\ result[1].test_results.imports_valid
             /\ result[1].test_results.simulation_successful))

C2_Witness ==
    /\ pc = "done" /\ result # <<>> /\ result[1].success
    /\ result[1].test_results.imports_valid

\* C3: the stages start in the order syntax, imports, transform, run, with
\* the synthesizer once and last; a stage starts only when the runner is not
\* in progress; nothing but the synthesizer follows a failed input
\* resolution or a syntax error.
StageOrder == <<"syntax", "imports", "transform", "run">>

StagesBeforeSynth ==
    IF stages # <<>> /\ stages[Len(stages)] = "synth"
    THEN SubSeq(stages, 1, Len(stages) - 1)
    ELSE stages

C3_StageOrder ==
    /\ IsPrefix(StagesBeforeSynth, StageOrder)
    /\ (pc = "done" <=> (stages # <<>> /\ stages[Len(stages)] = "synth"))
    /\ (execPc \notin {"idle", "returned", "raised"} =>
            stages = StageOrder /\ pc = "running")
    /\ (pc \in {"overall", "synth", "done"} => execPc \in {"idle", "returned", "raised"})
    /\ (input_kind \in {"not_a_string", "unreadable_file"} => StagesBeforeSynth = <<>>)
    /\ (pc # "emptycheck" /\ input_kind \in {"file", "string"} /\ IsEmpty(script_content)
            => StagesBeforeSynth = <<>>)
    /\ (parsed = "SyntaxError" => StagesBeforeSynth = <<"syntax">>)

C3_Witness ==
    pc = "done" /\ stages = StageOrder \o <<"synth">>

\* C4: when the import resolver reports errors the transformer and the
\* runner still run, the final errors are the import errors followed by the
\* errors of the execution stage, and success is false whatever the runner
\* returns.
ExecutionStageErrors ==
    IF execution_result # <<>> THEN execution_result[1].errors
    ELSE IF r_raised # <<>>
         THEN << <<"Unexpected error during testing", r_raised[1]>> >>
         ELSE <<>>

C4_ImportErrorsDoNotAbort ==
    (import_results # <<>> /\ ~import_results[1].success) =>
        /\ import_results[1].errors # <<>>
        /\ IsPrefix(import_results[1].errors, errors)
        /\ pc \in {"transform", "run", "running", "overall", "synth", "done"}
        /\ (pc \in {"overall", "synth", "done"} =>
              /\ IsPrefix(StageOrder, stages)
              /\ execPc \in {"returned", "raised"}
              /\ errors = import_results[1].errors \o ExecutionStageErrors)
        /\ (pc = "done" =>
              /\ ~result[1].success
              /\ result[1].errors = import_results[1].errors \o ExecutionStageErrors)

C4_Witness ==
    /\ pc = "done"
    /\ import_results # <<>> /\ ~import_results[1].success
    /\ execution_result # <<>> /\ execution_result[1].errors # <<>>
    /\ Len(result[1].errors) >= 2

\* C5: an unreadable file, or a content that is empty once stripped, is
\* rejected before any stage: nothing is parsed, resolved, transformed or
\* run, there is one input error entry, and the returned result has success
\* and all stage flags false.
InputRejected ==
    \/ input_kind = "unreadable_file"
    \/ /\ input_kind \in {"file", "string"}
       /\ pc # "emptycheck"
       /\ script_content \in {"", "whitespace"}

C5_EmptyOrUnreadableRejected ==
    InputRejected =>
        /\ pc \in {"synth", "done"}
        /\ parsed = "none" /\ import_results = <<>>
        /\ \A i \in DOMAIN stages : stages[i] = "synth"
        /\ execPc = "idle" /\ workerPc = "idle" /\ tempFile = "absent"
        /\ Len(errors) = 1
        /\ errors[1][1] \in {"Failed to read script file", "Script content is empty"}
        /\ AllFlagsFalse(test_results)
        /\ (pc = "done" =>
              /\ ~result[1].success
              /\ AllFlagsFalse(result[1].test_results)
              /\ result[1].errors = errors)

C5_Witness ==
    pc = "done" /\ script_content = "whitespace" /\ result # <<>>

\* C6: no exception leaves test_pylabrobot_script: the calling thread can
\* always take a step until it has returned, and what it returns is the
\* structured result.
ResultKeys == {"success", "test_results", "execution_summary", "errors", "warnings"}

C6_AlwaysReturnsResult ==
    /\ pc # "raised" /\ escaped = <<>>
    /\ (pc # "done" => ENABLED CallerNext)
    /\ (pc = "done" <=> result # <<>>)
    /\ (result # <<>> =>
          /\ ResultKeys \subseteq DOMAIN result[1]
          /\ result[1].errors = errors /\ result[1].warnings = warnings)

C6_Witness ==
    /\ pc = "done" /\ result # <<>>
    /\ r_raised = <<"UnboundLocalError">>
    /\ args.save_test_report /\ result[1].test_report_path = <<>>

\* C7: when the worker is alive at the test that follows the bounded join,
\* the runner returns failure with the single entry mentioning "timed out"
\* and nothing of the worker in it, and the final result has
\* simulation_successful and success false and holds that entry; the worker
\* may still be running then.
C7_TimeoutReported ==
    (aliveAtCheck /\ execPc = "returned") =>
        /\ clock = args.timeout_seconds
        /\ execution_result[1] =
             [success |-> FALSE, summary |-> RunnerSummary,
              errors |-> <<TimeoutEntry>>, warnings |-> <<>>]
        /\ Mentions(TimeoutEntry, "timed out")
        /\ (pc = "done" =>
              /\ ~result[1].test_results.simulation_successful
              /\ ~result[1].success
              /\ \E i \in DOMAIN result[1].errors : result[1].errors[i] = TimeoutEntry)

C7_Witness ==
    /\ pc = "done" /\ aliveAtCheck /\ WorkerAlive
    /\ execution_result # <<>> /\ ~execution_result[1].success

\* C8: once _execute_script_safely has been entered the calling thread
\* leaves it, whatever the script does, also when the worker or the nested
\* thread never ends.
C8_CallerLeavesRunner ==
    (execPc = "create") ~> (execPc \in {"returned", "raised"})

C8_Witness ==
    /\ execPc = "returned"
    /\ workerPc \in {"hung", "nested_join"}

\* C9: when _execute_script_safely has been left, no transient file it
\* created is still there.
C9_TempFileDeleted ==
    (execPc \in {"returned", "raised"}) => (tempFile # "exists")

\* C10: _execute_script_safely returns success exactly when the worker was
\* found ended, with no exception and a result; on timeout, exception and
\* missing result it returns failure with the one entry of that case.
WorkerEndedWell ==
    /\ workerPc = "dead" /\ ~aliveAtCheck
    /\ w_exception = <<>> /\ w_result # <<>>

C10_RunnerSuccessCases ==
    (execPc = "returned") =>
        LET er == execution_result[1] IN
        /\ er.success <=> WorkerEndedWell
        /\ aliveAtCheck => (~er.success /\ er.errors = <<TimeoutEntry>>)
        /\ (~aliveAtCheck /\ workerPc = "dead" /\ w_exception # <<>>) =>
              (~er.success /\
               er.errors = << <<"Script execution failed">> \o w_exception[1] >>)
        /\ (~aliveAtCheck /\ workerPc = "dead" /\ w_exception = <<>> /\ w_result = <<>>) =>
              (~er.success /\ er.errors = <<NoResultEntry>>)

C10_Witness ==
    /\ execPc = "returned" /\ workerPc = "dead" /\ ~aliveAtCheck
    /\ w_exception = <<>> /\ w_result = <<>>
    /\ ~execution_result[1].success

\* msg is a contiguous part of entry.
Contains(entry, msg) ==
    \E k \in 0..(Len(entry) - Len(msg)) : SubSeq(entry, k + 1, k + Len(msg)) = msg

\* The message of the exception the submitted script raised.
OriginalMessage ==
    IF script.body = "raise" THEN <<"boom">> ELSE MainMessage(script.mainOutcome)

\* The worker ran the script, and its body or a call of its main raised.
ScriptRaised ==
    /\ workerPc = "dead" /\ fileSeen
    /\ \/ script.body = "raise"
       \/ mainCalls > 0 /\ script.mainOutcome \in {"raise", "raiseRuntimeError"}

\* C11: when the script body or its main raised inside the worker and the
\* worker was found ended, the runner returns failure with an error entry
\* that contains the message of the exception the script raised, and
\* simulation_successful stays false.
C11_OriginalMessagePreserved ==
    (execPc = "returned" /\ ~aliveAtCheck /\ ScriptRaised) =>
        /\ ~execution_result[1].success
        /\ \E i \in DOMAIN execution_result[1].errors :
              Contains(execution_result[1].errors[i], OriginalMessage)
        /\ ~test_results.simulation_successful

\* C12: main is invoked by the runner as its kind and the loop state fix
\* it.  Without a callable main nothing is invoked and the monitored run
\* returns a result; a synchronous main is called directly, on the worker's
\* thread; an asynchronous main is driven directly when no loop is active,
\* and only on the nested thread, which the worker joins until it has ended,
\* when a loop is active.
C12_MainInvocationStrategy ==
    /\ (script.main = "none") =>
          /\ invoked = <<>> /\ mainCalls = 0 /\ nestedPc = "idle"
          /\ (workerPc = "dead" /\ fileSeen /\ script.body = "ok") =>
                (w_result # <<>> /\ w_exception = <<>>)
    /\ (script.main = "sync") =>
          /\ loop_running = <<>> /\ nestedPc = "idle"
          /\ invoked \in {<<>>, <<"direct">>}
          /\ (w_result # <<>> => invoked = <<"direct">>)
    /\ (script.main = "async") =>
          /\ (loop_running = <<>>) => (invoked = <<>> /\ nestedPc = "idle"
                                        /\ w_result = <<>>)
          /\ (loop_running = <<FALSE>>) =>
                /\ invoked = <<"direct">> /\ nestedPc = "idle"
                /\ workerPc \in {"dead", "hung"}
                /\ (script.mainOutcome = "ok" => w_result # <<>>)
          /\ (loop_running = <<TRUE>>) =>
                /\ nestedPc # "idle"
                /\ invoked = (IF nestedPc = "run" THEN <<>> ELSE <<"nested">>)
                /\ workerPc \in {"nested_join", "dead"}
                /\ (workerPc = "dead" => nestedPc = "dead")
                /\ (w_result # <<>> => n_exception = <<>>)

C12_Witness ==
    /\ script.main = "async" /\ loop_running = <<TRUE>>
    /\ invoked = <<"nested">> /\ nestedPc = "dead"
    /\ workerPc = "dead" /\ w_result # <<>>
    /\ execPc = "returned" /\ execution_result[1].success

\* C13: for a source that holds the literal hardware-backend construction,
\* the text _modify_script_for_testing returns holds it nowhere and holds the
\* simulation-backend construction at least once (as often as the source
\* held the two together).
C13_BackendsReplaced ==
    (t_pc = "done" /\ Count(t_source, HardwareConstruction) > 0) =>
        /\ Count(modified_script, HardwareConstruction) = 0
        /\ Count(modified_script, SimulationConstruction) >= 1
        /\ Count(modified_script, SimulationConstruction) =
             Count(t_source, HardwareConstruction)
             + Count(t_source, SimulationConstruction)

C13_Witness ==
    /\ t_pc = "done"
    /\ Count(t_source, HardwareConstruction) = 2
    /\ Count(modified_script, SimulationConstruction) = 2

\* The first k lines end on a statement boundary at module level: no
\* bracket, block header, decorator or try is open after them, and the next
\* line of code, if any, is not indented.
AtModuleLevel(lines, k) ==
    LET st == ParseState(SubSeq(lines, 1, k))
        rest == { j \in (k + 1)..Len(lines) :
                    LineKind(lines[j]) \notin {"blank", "comment"} }
    IN /\ st.ok /\ st.depth = 0 /\ st.expect = "any" /\ st.try = -1
       /\ rest # {} =>
            IndentOf(lines[CHOOSE j \in rest : \A m \in rest : j <= m]) = 0

\* The lines the first and the second scan went through.
LinesAtImportScan ==
    Split(Replace(t_source, HardwareConstruction, SimulationConstruction))

LinesAtTrackingScan == Insert(LinesAtImportScan, insert_at[1], ImportLine)

\* C14: for a source that parses, the import line and the tracking snippet
\* are both inserted on a statement boundary at module level, and the
\* returned text parses.
C14_InsertionsKeepValidity ==
    (t_pc = "done") =>
        /\ AtModuleLevel(LinesAtImportScan, insert_at[1])
        /\ AtModuleLevel(LinesAtTrackingScan, insert_index[1])
        /\ Parses(modified_script)

\* The report file was written and the function has returned.
ReportWritten == pc = "done" /\ args.save_test_report /\ report # <<>>

\* C15 as stated: when the report was saved, the returned result has
\* test_report_path and the content of the file deserializes to the returned
\* result.
C15_ReportEqualsReturned ==
    ReportWritten =>
        /\ result[1].test_report_path # <<>>
        /\ JsonLoad(report[1]) = result[1]

\* C15, amended: when the report was saved, the returned result has
\* test_report_path and the content of the file deserializes to the returned
\* result without its test_report_path entry, which is set after the file
\* is written.
C15_ReportEqualsReturnedWithoutPath ==
    ReportWritten =>
        /\ result[1].test_report_path # <<>>
        /\ "test_report_path" \notin DOMAIN report[1]
        /\ JsonLoad(report[1]) = [result[1] EXCEPT !.test_report_path = <<>>]

C15_Witness ==
    /\ ReportWritten
    /\ result[1].errors # <<>> /\ result[1].warnings # <<>>
    /\ result[1].test_results.syntax_valid

SaveWarning == <<"Failed to save test report", "OSError">>

\* C16: a step of the synthesizer in which persisting the report fails
\* returns the success, flags, summary and errors it returns without
\* persistence, the warnings with one added entry, and no test_report_path.
C16_PersistFailureIsWarning ==
    [][(pc = "synth" /\ pc' = "done" /\ args.save_test_report /\ report' = <<>>) =>
         LET without == CreateTestResult(overall, test_results, execution_summary,
                                         errors, warnings, FALSE, "ok")
         IN /\ result'[1].success = without.success
            /\ result'[1].test_results = without.test_results
            /\ result'[1].execution_summary = without.execution_summary
            /\ result'[1].errors = without.errors
            /\ result'[1].warnings = Append(without.warnings, SaveWarning)
            /\ result'[1].test_report_path = <<>>]_vars

C16_Witness ==
    /\ pc = "done" /\ args.save_test_report /\ report = <<>>
    /\ result[1].success
    /\ result[1].warnings = <<SaveWarning>>
    /\ result[1].test_report_path = <<>>

\* C17: every warning of the import resolver is in the warnings of the
\* returned result, also when the resolver reported no error.
C17_ImportWarningsRecorded ==
    (pc = "done" /\ import_results # <<>>) =>
        \A i \in DOMAIN import_results[1].warnings :
            \E j \in DOMAIN result[1].warnings :
                result[1].warnings[j] = import_results[1].warnings[i]

\* The import statement the reference comes from works: its module imports
\* and the name it asks for, if it asks for one, is there.
Resolves(ref) == ref.load = "ok" /\ ref.defined

\* The module fails to import, or the name is missing from it.
FailsToResolve(ref) ==
    ref.load = "ImportError" \/ (ref.load = "ok" /\ ~ref.defined)

\* C18: the resolver returns success (imports_valid) exactly when it
\* recorded no error entry; it is true when every collected reference
\* resolves, false when a module fails to import or a name is missing, and
\* what it returns is what the pipeline's import stage computes from the
\* outcomes of the lookups.
C18_ImportsValidIffResolved ==
    (i_pc = "done") =>
        LET refs == pylabrobot_imports
            valid == i_result[1].success
        IN /\ valid <=> (i_result[1].errors = <<>>)
           /\ i_result[1] = ValidateImports([k \in DOMAIN refs |-> ResolveRef(refs[k])])
           /\ (\A k \in DOMAIN refs : Resolves(refs[k])) => valid
           /\ (\E k \in DOMAIN refs : FailsToResolve(refs[k])) => ~valid

\* The values of the upserts executed for a key, in order.
UpsertedValues(key) ==
    LET F[i \in 0..Len(wl_upserted)] ==
          IF i = 0 THEN <<>>
          ELSE IF wl_upserted[i].key = key
               THEN Append(F[i - 1], wl_upserted[i].value)
               ELSE F[i - 1]
    IN F[Len(wl_upserted)]

UpsertedKeys == { wl_upserted[i].key : i \in DOMAIN wl_upserted }

\* C19: a key that was upserted, once or several times, has exactly one
\* stored row, and that row holds the measurement_value of the last upsert;
\* no row is stored for any other key.
C19_UpsertKeepsOneRow ==
    /\ \A key \in UpsertedKeys :
          LET stored == { r \in wl_rows : KeyOf(r) = key }
              values == UpsertedValues(key)
          IN /\ Cardinality(stored) = 1
             /\ \A r \in stored : r.measurement_value = values[Len(values)]
    /\ \A r \in wl_rows : KeyOf(r) \in UpsertedKeys

C19_Witness ==
    \E key \in UpsertedKeys :
        /\ Len(UpsertedValues(key)) = 2
        /\ UpsertedValues(key)[1] # UpsertedValues(key)[2]
        /\ Cardinality({ r \in wl_rows : KeyOf(r) = key }) = 1
        /\ Cardinality(wl_rows) = 2

\* C20: the text get_pylabrobot_documentation_liquid and
\* get_pylabrobot_documentation_material return is never longer than
\* _MAX_DOC_CHARS.
C20_DocumentationCapped ==
    (d_pc = "done") => (d_returned[1] <= MAX_DOC_CHARS)

\* The tracking-control snippets a text holds: each one opens its try block
\* with the same import line.
TrackingSnippets(text) ==
    Count(text, <<"from ", "pylabrobot.resources import set_tip_tracking, set_volume_tracking">>)

\* C21: the text a second call returns, handed the first call's output and
\* tracking disabled, holds the tracking-control snippet once.
C21_TrackingInjectedOnce ==
    (t_pc = "again") => TrackingSnippets(modified_script) = 1

\* What the calling thread keeps and returns: the shared lists, the summary
\* and the stage flags of the pipeline, the runner's own list and pending
\* return value, what the runner returned and what the pipeline returned.
CallerOwned ==
    <<errors, warnings, execution_summary, test_results, r_errors, r_ret,
      execution_result, result, report>>

\* The runner has returned its timeout outcome.
TimeoutReturned ==
    /\ execPc = "returned"
    /\ aliveAtCheck
    /\ execution_result # <<>>

\* C22: a step of the worker thread or of its nested thread leaves
\* everything the calling thread owns unchanged, and once the runner has
\* returned its timeout outcome no step of any thread changes that outcome,
\* nor, once the pipeline has returned, the returned result.
C22_WorkerWritesOwnSlotsOnly ==
    [][ /\ (WorkerNext \/ NestedRun) => UNCHANGED CallerOwned
        /\ TimeoutReturned => UNCHANGED execution_result
        /\ (pc = "done" /\ result # <<>>) => UNCHANGED result ]_vars

\* The abandoned worker ended, with a result or with an exception, after
\* the pipeline had returned the timeout.
C22_Witness ==
    /\ TimeoutReturned
    /\ pc = "done" /\ result # <<>> /\ ~result[1].success
    /\ workerPc = "dead"
    /\ fileSeen
    /\ w_result # <<>> \/ w_exception # <<>>

\* The monitored run has ended and set its result slot.
MonitoredRunCompleted == workerPc = "dead" /\ w_result # <<>>

\* C23: in a run of a script that defines a callable main, the body of
\* main is never executed twice, and it has been executed exactly once when
\* the monitored run completes.
C23_MainInvokedOnce ==
    (script.main # "none") =>
        /\ mainCalls <= 1
        /\ MonitoredRunCompleted => mainCalls = 1

\* The worker is past line 562: it has tried to open the transient file.
WorkerTriedOpen == workerPc \notin {"idle", "open"}

\* C24: whenever the worker has tried to open the transient file, the file
\* was there and the worker has read it.
C24_FileExistsAtOpen == WorkerTriedOpen => fileSeen

\* The lines of the returned text that hold a simulation-backend
\* construction, and the lines that are the inserted import.
ConstructionLines(lines) ==
    { i \in DOMAIN lines : Count(lines[i], SimulationConstruction) > 0 }

ImportLines(lines) == { i \in DOMAIN lines : lines[i] = ImportLine }

\* C25: in the returned text every line that holds a simulation-backend
\* construction comes after the inserted import line.
C25_ImportBeforeConstruction ==
    (t_pc = "done") =>
        LET lines == Split(modified_script) IN
        \A i \in ConstructionLines(lines) :
            \E j \in ImportLines(lines) : j < i

PrepareEntry == <<"Failed to prepare script execution", "OSError">>

\* The handler of line 540 has recorded a failure of the file preparation.
PrepareFailed == \E i \in DOMAIN r_errors : r_errors[i] = PrepareEntry

\* C26: no exception leaves _execute_script_safely, and a call whose file
\* preparation failed ends by returning success = false with the "Failed to
\* prepare script execution" entry.
C26_RunnerNeverRaises ==
    /\ execPc # "raised"
    /\ r_raised = <<>>
    /\ (PrepareFailed /\ execPc \notin {"prep_except", "finally"}) =>
          /\ execPc = "returned"
          /\ ~execution_result[1].success
          /\ \E i \in DOMAIN execution_result[1].errors :
                execution_result[1].errors[i] = PrepareEntry

\* What the stages before the runner recorded (lines 331-343): the two
\* flags, and the entries of the import stage, copied only when it failed.
ErrorsBeforeRunner ==
    IF import_results[1].success THEN <<>> ELSE import_results[1].errors

WarningsBeforeRunner ==
    IF import_results[1].success THEN <<>> ELSE import_results[1].warnings

\* The execution stage has been left with a failure: a returned failure
\* (timeout, exception, no result) or an exception out of the runner.
ExecutionFailed ==
    /\ pc \in {"overall", "synth", "done"}
    /\ \E i \in DOMAIN stages : stages[i] = "run"
    /\ ~test_results.simulation_successful

\* C27: when the runner starts, the flags and lists hold what the earlier
\* stages recorded; after a failed execution stage syntax_valid and
\* imports_valid still hold those values and the earlier entries are still
\* the beginning of errors and warnings, in the pipeline's lists and in the
\* returned result.
C27_ExecutionFailureKeepsEarlier ==
    /\ (pc \in {"run", "running"}) =>
          /\ test_results.syntax_valid
          /\ test_results.imports_valid = import_results[1].success
          /\ errors = ErrorsBeforeRunner
          /\ warnings = WarningsBeforeRunner
    /\ ExecutionFailed =>
          /\ test_results.syntax_valid
          /\ test_results.imports_valid = import_results[1].success
          /\ IsPrefix(ErrorsBeforeRunner, errors)
          /\ IsPrefix(WarningsBeforeRunner, warnings)
          /\ Len(errors) > Len(ErrorsBeforeRunner)
    /\ (ExecutionFailed /\ pc = "done") =>
          /\ result[1].test_results.syntax_valid
          /\ result[1].test_results.imports_valid = import_results[1].success
          /\ IsPrefix(ErrorsBeforeRunner, result[1].errors)
          /\ IsPrefix(WarningsBeforeRunner, result[1].warnings)

\* A failed execution after an import stage that recorded an error and a
\* warning.
C27_Witness ==
    /\ ExecutionFailed /\ pc = "done"
    /\ ErrorsBeforeRunner # <<>> /\ WarningsBeforeRunner # <<>>
    /\ Len(result[1].errors) = Len(ErrorsBeforeRunner) + 1

StageStarted(name) == \E i \in DOMAIN stages : stages[i] = name

\* C28: every step extends errors and warnings (the earlier list is the
\* beginning of the later one), and a flag whose stage has run keeps its
\* value: syntax_valid after the syntax stage, imports_valid after the
\* import stage, simulation_successful after the execution stage.
C28_OutcomeOnlyAccumulates ==
    [][ /\ IsPrefix(errors, errors')
        /\ IsPrefix(warnings, warnings')
        /\ StageStarted("syntax") =>
              test_results'.syntax_valid = test_results.syntax_valid
        /\ StageStarted("imports") =>
              test_results'.imports_valid = test_results.imports_valid
        /\ (pc \in {"overall", "synth", "done"}) =>
              test_results'.simulation_successful = test_results.simulation_successful
      ]_vars

\* Every stage has added to the outcome: import errors and warnings, then a
\* failed execution, then a report that could not be saved.
C28_Witness ==
    /\ pc = "done"
    /\ test_results.syntax_valid /\ ~test_results.imports_valid
    /\ Len(errors) > Len(ErrorsBeforeRunner) /\ ErrorsBeforeRunner # <<>>
    /\ Len(warnings) > Len(WarningsBeforeRunner) /\ WarningsBeforeRunner # <<>>

\* seq without the count elements that start at position from.
Remove(seq, from, count) ==
    SubSeq(seq, 1, from - 1) \o SubSeq(seq, from + count, Len(seq))

FlagText(b) == IF b THEN "True" ELSE "False"

\* C29: the lines of the returned text are the lines of the source after the
\* backend replacement, all of them and in their order, with one block
\* inserted that is the tracking snippet for enable_tracking and one line
\* inserted that is the simulation-backend import; the text holds one such
\* import line, one snippet, and no tracking call with the other setting.
C29_NoStatementDisplaced ==
    (t_pc = "done") =>
        LET out == Split(modified_script)
            src == Split(Replace(t_source, HardwareConstruction,
                                 SimulationConstruction))
            snippet == Split(TrackingSetup(args.enable_tracking))
            n == Len(snippet)
        IN /\ Len(out) = Len(src) + 1 + n
           /\ \E b \in 1..(Len(out) - n + 1) :
                /\ SubSeq(out, b, b + n - 1) = snippet
                /\ LET rest == Remove(out, b, n) IN
                   \E a \in DOMAIN rest :
                       /\ rest[a] = ImportLine
                       /\ Remove(rest, a, 1) = src
           /\ Cardinality(ImportLines(out)) = 1
           /\ TrackingSnippets(modified_script) = 1
           /\ Count(modified_script,
                    <<"set_tip_tracking(", FlagText(~args.enable_tracking)>>) = 0

\* A three-line source with both insertions inside it, the snippet in front
\* of a definition that is not the first line.
C29_Witness ==
    /\ t_pc = "done"
    /\ Len(Split(t_source)) = 3
    /\ insert_at[1] \in 1..2
    /\ insert_index[1] >= 1
    /\ ~args.enable_tracking

\* The composite key each stored result_id belongs to.
KeysById(rows) == { <<r.result_id, KeyOf(r)>> : r \in rows }

\* A step that is a call of update_wetlab_result: it executes no upsert and
\* its message is one of those lines 859-905 return.
UpdateMessages ==
    {"Error", "Error updating wetlab result", "Wetlab result update completed."}

UpdateStep ==
    /\ wl_upserted' = wl_upserted
    /\ wl_message' # <<>>
    /\ wl_message'[1][1] \in UpdateMessages

\* C30: after any sequence of upsert, update and delete calls no two stored
\* rows share a composite key, and a call of update_wetlab_result leaves the
\* number of rows and the composite key of every row as they were.
C30_CompositeKeyUnique ==
    /\ [](UniqueKeys(wl_rows) /\
          Cardinality({ KeyOf(r) : r \in wl_rows }) = Cardinality(wl_rows))
    /\ [][ UpdateStep =>
             /\ Cardinality(wl_rows') = Cardinality(wl_rows)
             /\ KeysById(wl_rows') = KeysById(wl_rows) ]_vars

\* Two rows are stored, the second of them changed by the last update.
C30_Witness ==
    /\ Cardinality(wl_rows) = 2
    /\ wl_message = << <<"Wetlab result update completed.", "1">> >>
    /\ \E r \in wl_rows :
          r.measurement_unit = "g" /\ r.measurement_value = "2.5" /\ r.result_id > 1

\* ---------------------------------------------------------------- C31
\* A record the loop has no reason to reject: a dictionary with the required
\* fields whose values convert.
ValidRecord(rec) ==
    /\ IsDict(rec)
    /\ RequiredRecordFields \subseteq DOMAIN rec
    /\ IsNumber(rec.measurement_value)

ValidIndexes(records) == { i \in DOMAIN records : ValidRecord(records[i]) }

\* The last valid record of the batch with the key of record i.
LastWithKey(records, i) ==
    CHOOSE j \in ValidIndexes(records) :
        /\ KeyOf(Values(records[j])) = KeyOf(Values(records[i]))
        /\ \A k \in ValidIndexes(records) :
             KeyOf(Values(records[k])) = KeyOf(Values(records[i])) => k <= j

\* The indexes named in error_details, in order.
RejectedIndexes(error_details) ==
    [n \in 1..(Len(error_details) \div 2) |-> error_details[2 * n - 1]]

BatchReturned == u_pc = "loop" /\ u_pc' = "idle"

\* C31: when upsert_wetlab_results returns for a batch, the successful
\* upserts and the failed records add up to the number of records handed in,
\* every rejected record is named once in the failure details and no valid
\* one is, and every valid record of the batch has its row in the table with
\* the value of the batch's last valid record for that key, whatever other
\* records of the batch were rejected.
C31_EveryRecordCountedValidStored ==
    [][ BatchReturned =>
          LET records == u_records
              valid == ValidIndexes(records)
              rejected == RejectedIndexes(u_st[1].error_details)
              m == wl_message'[1]
          IN /\ m[2] = ToString(Len(records))
             /\ IntOf(m[3]) + IntOf(m[4]) = Len(records)
             /\ IntOf(m[3]) = Cardinality(valid)
             /\ Len(rejected) = Len(records) - Cardinality(valid)
             /\ \A i \in DOMAIN records :
                  Cardinality({ n \in DOMAIN rejected : rejected[n] = ToString(i) })
                    = IF i \in valid THEN 0 ELSE 1
             /\ \A i \in valid :
                  \E r \in wl_rows' :
                    /\ KeyOf(r) = KeyOf(Values(records[i]))
                    /\ r.measurement_value =
                         Values(records[LastWithKey(records, i)]).measurement_value
        ]_vars

\* A batch of two has returned with one upsert and one failed record, and
\* the table holds a row.
C31_Witness ==
    /\ u_pc = "idle"
    /\ wl_message = << <<"Wetlab result UPSERT completed.", "2", "1", "1">> >>
    /\ wl_rows # {}
    /\ Len(wl_upserted) = 1

\* ---------------------------------------------------------------- C32
\* A key that is no dictionary or lacks a key field.
BadKey(key) == ~key.is_dict \/ KeyFields \ DOMAIN key.fields # {}

\* Updates that are empty or name a field outside the whitelist.
BadUpdates(updates) ==
    \/ updates.items = <<>>
    \/ \E i \in DOMAIN updates.items : updates.items[i][1] \notin UpdatableFields

\* A call that passes every check and whose key matches no stored row.
MatchesNothing(call) ==
    /\ ~BadKey(call.key)
    /\ call.db_path # ""
    /\ \A r \in wl_rows : KeyOf(r) # KeyValues(call.key.fields)

\* "Error: ..." as lines 859, 861, 865 and 913 return it.
ValidationError(message) == message[1] = "Error"

\* C32: in every state of the store, a call of update_wetlab_result or
\* delete_wetlab_result with a key that is no dictionary or lacks a key
\* field, and a call of update_wetlab_result with empty updates or a field
\* outside the whitelist, returns "Error: ..." and leaves the rows as they
\* are; a call that passes the checks with a key matching no row reports 0
\* rows and leaves the rows as they are.
C32_RejectedCallsChangeNothing ==
    /\ \A call \in UpdateCalls :
         LET out == UpdateResult(wl_rows, call) IN
         /\ BadKey(call.key) \/ BadUpdates(call.updates)
              => ValidationError(out.message) /\ out.rows = wl_rows
         /\ /\ MatchesNothing(call)
            /\ ~BadUpdates(call.updates)
            /\ ~ConversionFails(call.updates.items)
            => /\ out.message = <<"Wetlab result update completed.", "0">>
               /\ out.rows = wl_rows
    /\ \A call \in DeleteCalls :
         LET out == DeleteResult(wl_rows, call) IN
         /\ BadKey(call.key)
              => ValidationError(out.message) /\ out.rows = wl_rows
         /\ MatchesNothing(call)
              => /\ out.message = <<"Wetlab result deletion completed.", "0">>
                 /\ out.rows = wl_rows

\* A deletion whose key matched none of the stored rows has returned.
C32_Witness ==
    /\ wl_rows # {}
    /\ wl_message = << <<"Wetlab result deletion completed.", "0">> >>

\* ---------------------------------------------------------------- C33
\* The report of a returned result: the result as it was dumped, before
\* line 651 added the path.
OwnReport(r) == JsonDump([r EXCEPT !.test_report_path = <<>>])

HoldsOwnReport(r) ==
    /\ r.test_report_path[1] \in DOMAIN rp_files
    /\ rp_files[r.test_report_path[1]] = OwnReport(r)

\* C33: of two invocations that have returned with a test_report_path in the
\* same directory, each one's path names a file that holds its own report.
C33_ReportsNotOverwritten ==
    \A i \in DOMAIN rp_returned, j \in DOMAIN rp_returned :
        /\ i # j
        /\ rp_returned[i].test_report_path # <<>>
        /\ rp_returned[j].test_report_path # <<>>
        /\ rp_returned[i].test_report_path[1][1] = rp_returned[j].test_report_path[1][1]
        => HoldsOwnReport(rp_returned[i]) /\ HoldsOwnReport(rp_returned[j])
====
